---- MODULE Spec2Model ----
(***************************************************************************)
(* Model of the Phink fuzzing harness (src/src/fuzzer/fuzz.rs), its bug    *)
(* manager (src/src/fuzzer/bug.rs) and the contract bridge                 *)
(* (src/src/contract/remote.rs).                                           *)
(*                                                                         *)
(* The contract under test and the contracts pallet are a deterministic    *)
(* black box for the harness: `bare_call` is a function of the storage of  *)
(* the current externality and of the call's arguments.  The model draws   *)
(* the contract from a small family of deterministic contracts.            *)
(***************************************************************************)
EXTENDS Integers, Sequences, FiniteSets, TLC

\* ------------------------------------------------------------------ bounds
MaxMsgs == 2          \* longest decoded message sequence that is explored
NumContracts == 2     \* size of the family of contracts under test
NumLines == 3         \* instrumented source lines of the contract
ValueTokenMax == 3    \* the non-zero value_token that is explored
MaxFragments == 5     \* most fragments of a raw input that is explored
MaxDnsMsgs == 3       \* longest message sequence for the sample contract
MaxStmts == 2         \* most statements of a block of a source file
MaxRuns == 2          \* most `phink instrument` runs
MaxTextLen == 5       \* most tokens of a source text
FirstLine == 2        \* the line of the first statement of a source file

\* ------------------------------------------------------- program constants
MAX_MESSAGES_PER_EXEC == 4
DEFAULT_GAS_LIMIT == 100      \* ref_time, in units of 10^9
AccountIdLen == 32
SelectorLen == 4
HashLen == 32
DelimiterLen == 8
DelimiterByte == 42           \* 0x2A, '*'
MinInputLen == 4              \* shorter inputs decode to nothing

None == <<>>
Some(x) == <<x>>

Min(a, b) == IF a < b THEN a ELSE b

RECURSIVE SumBytes(_)
SumBytes(s) == IF s = <<>> THEN 0 ELSE Head(s) + SumBytes(Tail(s))

\* --------------------------------------------------------------- metadata
\* Selectors of the contract under test: two regular messages (the second
\* one payable) and two invariant messages.
SelMsgA == <<0, 0, 0, 1>>
SelMsgB == <<0, 0, 0, 2>>
SelInv1 == <<1, 0, 0, 1>>
SelInv2 == <<1, 0, 0, 2>>

invariants == <<SelInv1, SelInv2>>

PayableSelectors == {SelMsgB}

\* The metadata file of the contract (spec.messages): per message whether its
\* label carries the invariant prefix, its selector, whether it is payable and
\* the number of bytes its encoded arguments take.
Metadata ==
    <<[phink |-> FALSE, selector |-> SelMsgA, payable |-> FALSE, args |-> 1],
      [phink |-> FALSE, selector |-> SelMsgB, payable |-> TRUE, args |-> 0],
      [phink |-> TRUE, selector |-> SelInv1, payable |-> FALSE, args |-> 0],
      [phink |-> TRUE, selector |-> SelInv2, payable |-> FALSE, args |-> 0]>>

\* the metadata of a contract that was written without any invariant
MetadataNoInvariants == SubSeq(Metadata, 1, 2)

\* PayloadCrafter::extract_all: every message selector of the metadata
extract_all(json_specs) == [k \in 1..Len(json_specs) |-> json_specs[k].selector]

\* PayloadCrafter::extract_invariants: the selectors of the messages whose
\* label carries the invariant prefix; nothing when there is none
extract_invariants(json_specs) ==
    LET found == extract_all(SelectSeq(json_specs, LAMBDA m : m.phink))
    IN  IF found = <<>> THEN None ELSE Some(found)

\* ------------------------------------------------------------ configuration
DefaultConfiguration == [default_gas_limit |-> None]
LowGasConfiguration == [default_gas_limit |-> Some(2)]
Configurations == {DefaultConfiguration, LowGasConfiguration}

\* ------------------------------------------------------------------ storage
AccountId32(who) == [i \in 1..AccountIdLen |-> who]

ContractAddress == AccountId32(0)

\* runtime_storage(): the chain before anything is deployed; contract_info is
\* the set of accounts with an entry in ContractInfoOf
runtime_storage == [store |-> 0, now |-> 0, contract_info |-> {}]

GenesisStorage == [runtime_storage EXCEPT !.contract_info = {ContractAddress}]

\* FullContractResponse.result
ResultOk == [ok |-> TRUE, revert |-> FALSE, module |-> FALSE, message |-> ""]
ResultRevert == [ok |-> TRUE, revert |-> TRUE, module |-> FALSE, message |-> ""]
ResultTrap == [ok |-> FALSE, revert |-> FALSE, module |-> TRUE, message |-> "ContractTrapped"]
ResultOutOfGas == [ok |-> FALSE, revert |-> FALSE, module |-> TRUE, message |-> "OutOfGas"]

\* What the execution of the contract does, by contract of the family.
ContractOutcomes == <<"Ok", "Trap", "Revert", "Ok", "Ok">>

CallCode(acc, value, payload) == SumBytes(payload) + acc[1] + value

GasRequired(code) == 1 + (code % 3)

\* Contracts::bare_call on the externality whose storage is st.
bare_call(c, st, acc, dest, value, gas_limit, payload) ==
    LET code == CallCode(acc, value, payload)
        outcome == IF GasRequired(code) > gas_limit
                   THEN "OutOfGas"
                   ELSE ContractOutcomes[((c + st.store + code) % Len(ContractOutcomes)) + 1]
        line == 1 + (code % NumLines)
        line2 == 1 + ((code + st.store + 1) % NumLines)
    IN  CASE outcome = "Ok" ->
               [response |-> [result |-> ResultOk, debug_message |-> <<line, line2>>],
                storage |-> [st EXCEPT !.store = (st.store + code + 1) % 3]]
          [] outcome = "Revert" ->
               [response |-> [result |-> ResultRevert, debug_message |-> <<line>>],
                storage |-> st]
          [] outcome = "Trap" ->
               [response |-> [result |-> ResultTrap, debug_message |-> <<line>>],
                storage |-> st]
          [] OTHER ->
               [response |-> [result |-> ResultOutOfGas, debug_message |-> <<>>],
                storage |-> st]

\* ------------------------------------------- the sample contract (dns)
\* the member of the family that is the DomainNameService sample
Dns == NumContracts

zero_address == AccountId32(0)
bob == AccountId32(2)

HashDefault == [i \in 1..HashLen |-> 0]
FORBIDDEN_DOMAIN == [i \in 1..HashLen |-> IF i = HashLen THEN 1 ELSE 0]
Name99 == [i \in 1..HashLen |-> 153]

\* the selectors of the messages: the first 4 bytes of the BLAKE2b-256 hash
\* of the message's name
SelRegister == <<34, 155, 85, 63>>
SelPayMe == <<71, 24, 127, 62>>
SelSetAddress == <<184, 164, 211, 217>>
SelTransfer == <<132, 161, 93, 161>>
SelHash42 == <<181, 135, 237, 175>>
SelDangerousNumber == <<39, 216, 241, 55>>
SelCannotTransfer1337 == <<93, 40, 20, 44>>
SelThreeMessageCalls == <<32, 147, 218, 164>>

DnsMetadata ==
    <<[phink |-> FALSE, selector |-> SelRegister, payable |-> FALSE, args |-> HashLen],
      [phink |-> FALSE, selector |-> SelPayMe, payable |-> TRUE, args |-> 0],
      [phink |-> FALSE, selector |-> SelSetAddress, payable |-> FALSE,
       args |-> HashLen + AccountIdLen],
      [phink |-> FALSE, selector |-> SelTransfer, payable |-> FALSE,
       args |-> HashLen + AccountIdLen + 4],
      [phink |-> TRUE, selector |-> SelHash42, payable |-> FALSE, args |-> 0],
      [phink |-> TRUE, selector |-> SelDangerousNumber, payable |-> FALSE, args |-> 0],
      [phink |-> TRUE, selector |-> SelCannotTransfer1337, payable |-> FALSE, args |-> 0],
      [phink |-> TRUE, selector |-> SelThreeMessageCalls, payable |-> FALSE, args |-> 0]>>

\* Mapping::insert
insert(mapping, key, value) ==
    [k \in (DOMAIN mapping) \cup {key} |-> IF k = key THEN value ELSE mapping[k]]

\* DomainNameService::default
DnsDefault ==
    [name_to_address |-> insert(<<>>, HashDefault, zero_address),
     name_to_owner |-> insert(<<>>, HashDefault, zero_address),
     default_address |-> zero_address,
     domains |-> <<HashDefault>>,
     dangerous_number |-> 42,
     should_panic_after_three_calls |-> FALSE,
     leet_transfered |-> FALSE]

\* the storage the deployment of the sample leaves
DnsGenesis == [store |-> DnsDefault, now |-> 0, contract_info |-> {ContractAddress}]

get_owner_or_default(self, name) ==
    IF name \in DOMAIN self.name_to_owner
    THEN self.name_to_owner[name]
    ELSE self.default_address

get_address_or_default(self, name) ==
    IF name \in DOMAIN self.name_to_address
    THEN self.name_to_address[name]
    ELSE self.default_address

get_address(self, name) == get_address_or_default(self, name)

\* what a message returns: Ok(()) or an Error, the storage, the lines run
Returned(value, self, lines) == [value |-> value, self |-> self, lines |-> lines]

\* (mutation) the forbidden name moves the number whatever it was
register_any_number(self, caller, name) ==
    IF name \in DOMAIN self.name_to_owner
    THEN Returned("NameAlreadyExists", self, <<110, 111, 112>>)
    ELSE LET s1 == IF name = FORBIDDEN_DOMAIN
                   THEN [self EXCEPT !.dangerous_number = 120]
                   ELSE self
         IN  Returned("Ok",
                      [s1 EXCEPT !.name_to_owner = insert(@, name, caller),
                                 !.domains = Append(@, name)],
                      <<110, 111, 115, 116, 117, 121, 122, 123, 125>>)

register(self, caller, name) ==
    IF name \in DOMAIN self.name_to_owner
    THEN Returned("NameAlreadyExists", self, <<110, 111, 112>>)
    ELSE LET forbidden == self.dangerous_number = 80 /\ name = FORBIDDEN_DOMAIN
             s1 == IF forbidden THEN [self EXCEPT !.dangerous_number = 120] ELSE self
         IN  Returned("Ok",
                      [s1 EXCEPT !.name_to_owner = insert(@, name, caller),
                                 !.domains = Append(@, name)],
                      <<110, 111, 115>>
                      \o (IF self.dangerous_number = 80 THEN <<116>> ELSE <<>>)
                      \o (IF forbidden THEN <<117>> ELSE <<>>)
                      \o <<121, 122, 123, 125>>)

pay_me(self, caller, transferred) ==
    IF transferred = 1377
    THEN Returned("Ok", [self EXCEPT !.leet_transfered = TRUE], <<130, 131, 132, 134>>)
    ELSE Returned("Ok", self, <<130, 131, 134>>)

\* (mutation) the address is written before the owner is checked
set_address_write_first(self, caller, name, new_address) ==
    LET s1 == [self EXCEPT !.name_to_address = insert(@, name, new_address)]
    IN  IF caller # get_owner_or_default(self, name)
        THEN Returned("CallerIsNotOwner", s1, <<141, 142, 143, 144>>)
        ELSE IF s1.dangerous_number = 120
        THEN Returned("Ok", [s1 EXCEPT !.should_panic_after_three_calls = TRUE],
                      <<141, 142, 143, 147, 148, 150, 151, 154, 160>>)
        ELSE Returned("Ok", s1, <<141, 142, 143, 147, 148, 150, 154, 160>>)

set_address(self, caller, name, new_address) ==
    IF caller # get_owner_or_default(self, name)
    THEN Returned("CallerIsNotOwner", self, <<141, 142, 143, 144>>)
    ELSE LET s1 == [self EXCEPT !.name_to_address = insert(@, name, new_address)]
         IN  IF s1.dangerous_number = 120
             THEN Returned("Ok", [s1 EXCEPT !.should_panic_after_three_calls = TRUE],
                           <<141, 142, 143, 147, 148, 150, 151, 154, 160>>)
             ELSE Returned("Ok", s1, <<141, 142, 143, 147, 148, 150, 154, 160>>)

\* i32 % i32: the remainder has the sign of the dividend
rem(a, b) == IF a >= 0 THEN a % b ELSE 0 - ((0 - a) % b)

\* (mutation) the variant of the sample that does not reject 69
transfer_without_guard(self, caller, name, to, number) ==
    IF caller # get_owner_or_default(self, name)
    THEN Returned("CallerIsNotOwner", self, <<168, 171, 172, 173>>)
    ELSE Returned("Ok",
                  [self EXCEPT !.dangerous_number = IF number = 80 THEN 80 ELSE rem(number, 70),
                               !.name_to_owner = insert(@, name, to),
                               !.domains = Append(@, name)],
                  <<168, 171, 172, 181, 183>>
                  \o (IF number = 80 THEN <<184>> ELSE <<>>)
                  \o <<187, 188, 190, 192, 199>>)

transfer(self, caller, name, to, number) ==
    IF caller # get_owner_or_default(self, name)
    THEN Returned("CallerIsNotOwner", self, <<168, 171, 172, 173>>)
    ELSE IF number = 69
    THEN Returned("ForbiddenDomain", self, <<168, 171, 172, 176, 178>>)
    ELSE Returned("Ok",
                  [self EXCEPT !.dangerous_number = IF number = 80 THEN 80 ELSE rem(number, 70),
                               !.name_to_owner = insert(@, name, to),
                               !.domains = Append(@, name)],
                  <<168, 171, 172, 176, 181, 183>>
                  \o (IF number = 80 THEN <<184>> ELSE <<>>)
                  \o <<187, 188, 190, 192, 199>>)

\* the invariants: an assertion that fails panics
phink_assert_hash42_cant_be_registered(self) == Returned("Ok", self, <<>>)

phink_assert_dangerous_number(self) ==
    Returned(IF self.dangerous_number # 69 THEN "Ok" ELSE "panic", self, <<249, 250>>)

phink_assert_cannot_transfer_1337(self) ==
    Returned(IF self.leet_transfered # TRUE THEN "Ok" ELSE "panic", self, <<255>>)

phink_assert_three_message_calls_required_to_crash(self) ==
    Returned(IF self.should_panic_after_three_calls = FALSE THEN "Ok" ELSE "panic",
             self, <<265>>)

\* SCALE: an i32 is 4 bytes, little-endian, two's complement
RECURSIVE le_bytes(_, _)
le_bytes(v, n) == IF n = 0 THEN <<>> ELSE <<v % 256>> \o le_bytes(v \div 256, n - 1)

RECURSIVE le_int(_)
le_int(bytes) == IF bytes = <<>> THEN 0 ELSE Head(bytes) + 256 * le_int(Tail(bytes))

encode_i32(n) == le_bytes(n, 4)

\* the top byte carries the sign
decode_i32(bytes) ==
    LET top == bytes[4]
    IN  le_int(SubSeq(bytes, 1, 3)) + (2^24) * (IF top >= 128 THEN top - 256 ELSE top)

\* the dispatch of the contract: the selector picks the message, the rest of
\* the payload are its arguments; an input that does not decode panics
dns_dispatch(self, caller, value, payload) ==
    LET selector == SubSeq(payload, 1, SelectorLen)
        input == SubSeq(payload, SelectorLen + 1, Len(payload))
        name == SubSeq(input, 1, HashLen)
        account == SubSeq(input, HashLen + 1, HashLen + AccountIdLen)
        number == decode_i32(SubSeq(input, HashLen + AccountIdLen + 1, Len(input)))
    IN  CASE selector = SelRegister /\ Len(input) = HashLen ->
               register(self, caller, name)
          [] selector = SelPayMe /\ input = <<>> ->
               pay_me(self, caller, value)
          [] selector = SelSetAddress /\ Len(input) = HashLen + AccountIdLen ->
               set_address(self, caller, name, account)
          [] selector = SelTransfer /\ Len(input) = HashLen + AccountIdLen + 4 ->
               transfer(self, caller, name, account, number)
          [] selector = SelHash42 /\ input = <<>> ->
               phink_assert_hash42_cant_be_registered(self)
          [] selector = SelDangerousNumber /\ input = <<>> ->
               phink_assert_dangerous_number(self)
          [] selector = SelCannotTransfer1337 /\ input = <<>> ->
               phink_assert_cannot_transfer_1337(self)
          [] selector = SelThreeMessageCalls /\ input = <<>> ->
               phink_assert_three_message_calls_required_to_crash(self)
          [] OTHER -> Returned("panic", self, <<>>)

\* Contracts::bare_call on the sample: a message that returns an Error is
\* reverted, a panic is a trap; both leave the storage as it was
dns_bare_call(st, acc, dest, value, gas_limit, payload) ==
    LET r == dns_dispatch(st.store, acc, value, payload)
    IN  CASE r.value = "Ok" ->
               [response |-> [result |-> ResultOk, debug_message |-> r.lines],
                storage |-> [st EXCEPT !.store = r.self]]
          [] r.value = "panic" ->
               [response |-> [result |-> ResultTrap, debug_message |-> r.lines],
                storage |-> st]
          [] OTHER ->
               [response |-> [result |-> ResultRevert, debug_message |-> r.lines],
                storage |-> st]

\* --------------------------------------------- a contract that fails
\* the member of the family whose calls end in every kind of dispatch error
Faulty == NumContracts + 1

\* DispatchError other than Module (their message is not ModuleError.message)
ResultOther == [ok |-> FALSE, revert |-> FALSE, module |-> FALSE, message |-> ""]
ResultOtherTrapped ==
    [ok |-> FALSE, revert |-> FALSE, module |-> FALSE, message |-> "ContractTrapped"]
\* DispatchError::Module whose message is None
ResultModuleNoMessage == [ok |-> FALSE, revert |-> FALSE, module |-> TRUE, message |-> ""]

FaultyOutcomes ==
    <<ResultModuleNoMessage, ResultOutOfGas, ResultOther, ResultOk, ResultRevert,
      ResultOk, ResultTrap, ResultOtherTrapped>>

\* Contracts::bare_call on the failing contract
faulty_bare_call(st, acc, dest, value, gas_limit, payload) ==
    LET code == CallCode(acc, value, payload)
        result == FaultyOutcomes[((st.store + code) % Len(FaultyOutcomes)) + 1]
        line == 1 + (code % NumLines)
    IN  [response |-> [result |-> result, debug_message |-> <<line>>],
         storage |-> IF result = ResultOk
                     THEN [st EXCEPT !.store = (st.store + code + 1) % 3]
                     ELSE st]

\* the storage the deployment of contract c leaves
GenesisOf(c) == IF c = Dns THEN DnsGenesis ELSE GenesisStorage

\* ContractBridge::call
call(c, bridge, st, payload, who, transfer_value, config) ==
    LET acc == AccountId32(who)
        gas == IF config.default_gas_limit = None
               THEN DEFAULT_GAS_LIMIT
               ELSE config.default_gas_limit[1]
    IN  IF c = Dns
        THEN dns_bare_call(st, acc, bridge.contract_address, transfer_value, gas, payload)
        ELSE IF c = Faulty
        THEN faulty_bare_call(st, acc, bridge.contract_address, transfer_value, gas, payload)
        ELSE bare_call(c, st, acc, bridge.contract_address, transfer_value, gas, payload)

\* timestamp(lapse): block 1, lapse 0; time in units of SLOT_DURATION
timestamp(st, lapse) == [st EXCEPT !.now = IF lapse > 0 THEN 1 + lapse ELSE 1]

\* ------------------------------------------------------------- the inputs
Origins == {1, 2}
Payloads == {SelMsgA \o <<6>>, SelMsgB, SelInv1}
ValueTokens == {0, ValueTokenMax}

get4(payload) ==
    IF Len(payload) >= SelectorLen THEN Some(SubSeq(payload, 1, SelectorLen)) ELSE None

is_message_payable(payload) ==
    get4(payload) # None /\ get4(payload)[1] \in PayableSelectors

MessagesOf(o) ==
    {[payload |-> p, is_payable |-> is_message_payable(p), value_token |-> v, origin |-> o] :
        p \in Payloads, v \in ValueTokens}

SeqsUpTo(S, n) == UNION {[1..k -> S] : k \in 0..n}

\* The values parse_input can return.
OneInputs ==
    UNION {{[messages |-> ms, origin |-> o] :
              ms \in SeqsUpTo(MessagesOf(o), Min(MaxMsgs, MAX_MESSAGES_PER_EXEC))} :
           o \in Origins}

NoInput == [messages |-> <<>>, origin |-> 0]

\* ------------------------------------------------------- the input decoder
\* the framing delimiter, "********"
Delimiter == [i \in 1..DelimiterLen |-> DelimiterByte]

\* index of the first occurrence of needle in bytes, 0 when there is none
find(bytes, needle) ==
    LET hits == {i \in 1..(Len(bytes) - Len(needle) + 1) :
                    SubSeq(bytes, i, i + Len(needle) - 1) = needle}
    IN  IF hits = {} THEN 0 ELSE CHOOSE i \in hits : \A j \in hits : i <= j

\* the fragments between the occurrences of the delimiter
RECURSIVE split(_, _)
split(bytes, delimiter) ==
    LET at == find(bytes, delimiter)
    IN  IF at = 0
        THEN <<bytes>>
        ELSE <<SubSeq(bytes, 1, at - 1)>>
             \o split(SubSeq(bytes, at + Len(delimiter), Len(bytes)), delimiter)

\* the integer a little-endian slice encodes
RECURSIVE le_value(_)
le_value(bytes) == IF bytes = <<>> THEN 0 ELSE Head(bytes) + 256 * le_value(Tail(bytes))

\* One fragment: its first 4 bytes must be the selector of a message of the
\* metadata that is no invariant, and its arguments must decode; a payable
\* message takes its value from the bytes that follow the arguments.
decode_fragment(fragment, json_specs, origin) ==
    LET slice == get4(fragment)
        known == {k \in 1..Len(json_specs) :
                     /\ slice # None
                     /\ json_specs[k].selector = slice[1]
                     /\ ~json_specs[k].phink}
    IN  IF known = {}
        THEN None
        ELSE LET spec == json_specs[CHOOSE k \in known : TRUE]
                 rest == SubSeq(fragment, SelectorLen + 1, Len(fragment))
             IN  IF Len(rest) < spec.args \/ (~spec.payable /\ Len(rest) > spec.args)
                 THEN None
                 ELSE Some([payload |-> SubSeq(fragment, 1, SelectorLen + spec.args),
                            is_payable |-> spec.payable,
                            value_token |-> IF spec.payable
                                            THEN le_value(SubSeq(rest, spec.args + 1, Len(rest)))
                                            ELSE 0,
                            origin |-> origin])

RECURSIVE decode_fragments(_, _, _)
decode_fragments(fragments, json_specs, origin) ==
    IF fragments = <<>>
    THEN <<>>
    ELSE decode_fragment(Head(fragments), json_specs, origin)
         \o decode_fragments(Tail(fragments), json_specs, origin)

\* the messages of the accepted fragments of an input, in order
decode_messages(input, json_specs) ==
    decode_fragments(split(Tail(input), Delimiter), json_specs, Head(input))

\* (mutation) the list is not truncated
parse_input_uncapped(input, json_specs, config) ==
    IF Len(input) < MinInputLen
    THEN NoInput
    ELSE [messages |-> decode_messages(input, json_specs), origin |-> Head(input)]

\* (mutation) every selector of the metadata is accepted, invariants included
parse_input_all_selectors(input, json_specs, config) ==
    IF Len(input) < MinInputLen
    THEN NoInput
    ELSE LET all == [k \in 1..Len(json_specs) |-> [json_specs[k] EXCEPT !.phink = FALSE]]
             messages == decode_messages(input, all)
         IN  [messages |-> SubSeq(messages, 1, Min(Len(messages), MAX_MESSAGES_PER_EXEC)),
              origin |-> Head(input)]

\* (mutation) a short input is matched against the selectors by the bytes it
\* has (selector.starts_with(fragment))
parse_input_prefix_match(input, json_specs, config) ==
    IF input = <<>>
    THEN NoInput
    ELSE IF Len(input) < MinInputLen
    THEN LET matching == SelectSeq(json_specs,
                             LAMBDA m : /\ ~m.phink
                                        /\ SubSeq(m.selector, 1, Len(input) - 1) = Tail(input))
         IN  [messages |-> [k \in 1..Min(Len(matching), 1) |->
                               [payload |-> matching[k].selector,
                                is_payable |-> matching[k].payable,
                                value_token |-> 0, origin |-> Head(input)]],
              origin |-> Head(input)]
    ELSE LET messages == decode_messages(input, json_specs)
         IN  [messages |-> SubSeq(messages, 1, Min(Len(messages), MAX_MESSAGES_PER_EXEC)),
              origin |-> Head(input)]

\* parse_input: an input shorter than 4 bytes gives the empty OneInput; byte
\* 0 is the origin; the rest is split on the delimiter, the fragments are
\* decoded and the list is cut to MAX_MESSAGES_PER_EXEC
parse_input(input, json_specs, config) ==
    IF Len(input) < MinInputLen
    THEN NoInput
    ELSE LET messages == decode_messages(input, json_specs)
         IN  [messages |-> SubSeq(messages, 1, Min(Len(messages), MAX_MESSAGES_PER_EXEC)),
              origin |-> Head(input)]

\* The raw inputs the driver hands over: an origin byte, then fragments
\* joined by the delimiter.
Fragments ==
    {SelMsgA \o <<6>>,        \* a message with its argument
     SelMsgB \o <<ValueTokenMax>>,   \* a payable message and its value
     SelInv1,                 \* the selector of an invariant
     <<9, 9, 9, 9>>}          \* no selector of the metadata

RECURSIVE join(_, _)
join(fragments, delimiter) ==
    IF Len(fragments) <= 1
    THEN IF fragments = <<>> THEN <<>> ELSE fragments[1]
    ELSE fragments[1] \o delimiter \o join(Tail(fragments), delimiter)

\* inputs of less than 4 bytes, and inputs of whole fragments
RawInputs ==
    {<<>>}
    \cup {<<o, 0, 0>> : o \in Origins}
    \cup {<<o>> \o join(fs, Delimiter) :
             o \in Origins, fs \in SeqsUpTo(Fragments, MaxFragments)}

\* ------------------------------------------------------------------- state
VARIABLES
    contract,           \* the contract under test (member of the family)
    mode,               \* FuzzingMode: "Fuzz" or "ExecuteOneInput"
    cfg_fuzzing,        \* the build's cfg(fuzzing)
    setup,              \* Fuzzer.setup, the ContractBridge
    fuzzing_config,     \* Fuzzer.fuzzing_config
    ziggy_config,       \* ZiggyConfig.config: the Configuration of the command
    deploy,             \* the runtime calls initialize_wasm made, with their results
    bug_manager,        \* the BugManager init_fuzzer built
    heap,               \* the Storage objects: the genesis snapshots and the fork
    pc,                 \* position of the process
    warm,               \* an earlier iteration of this process changed its fork
    decoded_msgs,       \* harness: the OneInput parse_input returned
    chain,              \* harness: the Storage object behind `chain`
    coverage,           \* harness: the InputCoverage of this iteration
    all_msg_responses,  \* harness: the responses execute_messages collected
    inv_i,              \* are_invariants_passing: invariants called so far
    calls,              \* the bridge calls of this iteration, in order
    report,             \* what display_trap / display_invariant were given
    done_steps,         \* save / pretty_print / redirect_coverage executed
    cov_file,           \* the run-wide coverage set kept on disk
    redirected,         \* the lines redirect_coverage has marked for the driver
    data,               \* harness: the raw bytes the driver handed over
    corpus,             \* output/phink/corpus: file index -> content
    dict,               \* output/phink/selectors.dict: its lines
    dirs,               \* instrumenter: directory -> its lib.rs, as parsed
    engine,             \* the InstrumenterEngine of the last `phink instrument`
    runs,               \* the `phink instrument` runs so far, in order
    code,               \* a source text handed to already_instrumented
    detected            \* what already_instrumented answered for `code`

vars == <<contract, mode, cfg_fuzzing, setup, fuzzing_config, ziggy_config, deploy, bug_manager, heap,
          pc, warm, decoded_msgs, chain, coverage, all_msg_responses, inv_i,
          calls, report, done_steps, cov_file, redirected, data, corpus, dict,
          dirs, engine, runs, code, detected>>

\* the files init_fuzzer writes
disk_vars == <<corpus, dict>>

\* the state of the instrumenter
instrument_vars == <<dirs, engine, runs, code, detected>>

process_vars == <<contract, mode, cfg_fuzzing, setup, fuzzing_config, ziggy_config, deploy, bug_manager>>

NoChain == "none"
NoReport == [kind |-> "none", messages |-> <<>>, origin |-> 0,
             responses |-> <<>>, invariant |-> None]

\* ------------------------------------------------------------ the bridge
\* (mutation) no copy is made: the result is the source object itself
storage_alias(h, src) == [heap |-> h, ref |-> src]

\* Storage::clone: a new Storage object holding a copy of the source.
storage_clone(h, src) == [heap |-> [h EXCEPT !["fork"] = h[src]], ref |-> "fork"]

\* BasicExternalities::new(client.setup.genesis.clone())
new_externalities(h, bridge) == storage_clone(h, bridge.genesis)

\* ------------------------------------------------------------ bug manager
contains_selector(bm, selector) ==
    \E k \in 1..Len(bm.invariant_selectors) : bm.invariant_selectors[k] = selector

\* (mutation) the kind of the dispatch error is not looked at
is_contract_trapped_by_message(contract_response) ==
    /\ ~contract_response.result.ok
    /\ contract_response.result.message = "ContractTrapped"

\* (mutation) every dispatch error is taken for a trap
is_contract_trapped_any_error(contract_response) == ~contract_response.result.ok

is_contract_trapped(contract_response) ==
    /\ ~contract_response.result.ok
    /\ contract_response.result.module
    /\ contract_response.result.message = "ContractTrapped"

\* (mutation) only a trapped invariant counts as failed
invariant_failed_on_trap(invariant_call) == is_contract_trapped(invariant_call)

\* invariant_call.result.is_err()
invariant_failed(invariant_call) == ~invariant_call.result.ok

\* ------------------------------------------------------------- deployment
\* What the runtime answers during a deployment: bare_upload_code, the
\* constructor the metadata or the configuration gives, bare_instantiate (Ok
\* with a constructor that returned, Ok with a constructor that reverted, Err).
RuntimeOutcomes ==
    [upload : {"Ok", "Err"}, constructor : {"Some", "None"},
     instantiate : {"Ok", "Reverted", "Err"}]

\* no bridge was made
NoBridge == [genesis |-> "none", contract_address |-> <<>>, json_specs |-> <<>>]

\* the runtime calls of a deployment that went through
Deployed == <<[call |-> "bare_upload_code", result |-> "Ok"],
              [call |-> "bare_instantiate", result |-> "Ok"]>>

\* ContractBridge::upload: panics on Err
upload(log, outcome) ==
    [panic |-> outcome.upload = "Err",
     log |-> Append(log, [call |-> "bare_upload_code", result |-> outcome.upload])]

\* ContractBridge::instantiate: None without a constructor; unwrap panics on
\* Err; the contract info is written when the constructor returned
instantiate(c, st, log, outcome) ==
    IF outcome.constructor = "None"
    THEN [panic |-> FALSE, account_id |-> None, storage |-> st, log |-> log]
    ELSE LET done == Append(log, [call |-> "bare_instantiate",
                                  result |-> IF outcome.instantiate = "Err" THEN "Err" ELSE "Ok"])
         IN  CASE outcome.instantiate = "Err" ->
                    [panic |-> TRUE, account_id |-> None, storage |-> st, log |-> done]
               [] outcome.instantiate = "Reverted" ->
                    [panic |-> FALSE, account_id |-> Some(ContractAddress), storage |-> st,
                     log |-> done]
               [] OTHER ->
                    [panic |-> FALSE, account_id |-> Some(ContractAddress),
                     storage |-> GenesisOf(c), log |-> done]

\* the outcome of initialize_wasm: a panic, or the bridge and its genesis
Panicked(log) == [panic |-> TRUE, bridge |-> NoBridge, storage |-> None, log |-> log]

\* (mutation) the contract info is not looked for
initialize_wasm_unchecked(c, json_specs, outcome) ==
    LET uploaded == upload(<<>>, outcome)
        instantiated == instantiate(c, runtime_storage, uploaded.log, outcome)
    IN  IF uploaded.panic
        THEN Panicked(uploaded.log)
        ELSE IF instantiated.panic \/ instantiated.account_id = None
        THEN Panicked(instantiated.log)
        ELSE [panic |-> FALSE,
              bridge |-> [genesis |-> "genesis",
                          contract_address |-> instantiated.account_id[1],
                          json_specs |-> json_specs],
              storage |-> Some(instantiated.storage),
              log |-> instantiated.log]

\* ContractBridge::initialize_wasm: upload, instantiate (expect), the check
\* of ContractInfoOf, then chain.into_storages() is the genesis
initialize_wasm(c, json_specs, outcome) ==
    LET uploaded == upload(<<>>, outcome)
        instantiated == instantiate(c, runtime_storage, uploaded.log, outcome)
    IN  IF uploaded.panic
        THEN Panicked(uploaded.log)
        ELSE IF instantiated.panic \/ instantiated.account_id = None
        THEN Panicked(instantiated.log)
        ELSE IF instantiated.account_id[1] \notin instantiated.storage.contract_info
        THEN Panicked(instantiated.log)
        ELSE [panic |-> FALSE,
              bridge |-> [genesis |-> "genesis",
                          contract_address |-> instantiated.account_id[1],
                          json_specs |-> json_specs],
              storage |-> Some(instantiated.storage),
              log |-> instantiated.log]

\* ----------------------------------------------------------------- fuzzer
\* Fuzzer::new: fuzzing_config is Default::default()
Fuzzer_new(bridge) == [setup |-> bridge, fuzzing_config |-> DefaultConfiguration]

\* Fuzzer::set_config
set_config(fuzzer, configuration) == [fuzzer EXCEPT !.fuzzing_config = configuration]

\* (mutation) the selectors are not compared with the invariants
should_stop_now_if_empty(bm, d) == d.messages = <<>>

should_stop_now(bm, d) ==
    \/ d.messages = <<>>
    \/ \E k \in 1..Len(d.messages) :
          LET slice == get4(d.messages[k].payload)
          IN  IF slice = None THEN FALSE ELSE contains_selector(bm, slice[1])

\* (mutation) a message is always called with its value_token
transfer_value_token(message) == message.value_token

\* (mutation) no value is sent with a message
transfer_value_none(message) == 0

transfer_value(message) == IF message.is_payable THEN message.value_token ELSE 0

\* origin.into(): the u8 of the Origin
origin_into(origin) == origin % 256

\* InputCoverage::add_cov: the beacon lines of a debug buffer join the set
add_cov(cov, debug_message) == cov \cup {debug_message[k] : k \in 1..Len(debug_message)}

\* (mutation) the file is overwritten with this iteration's lines
save_overwrite(file, cov) == cov

\* InputCoverage::save: merge into the run-wide set on disk
save(file, cov) == file \cup cov

\* InputCoverage::redirect_coverage: one marker per line seen
redirect_coverage(seen, cov) == seen \cup cov

\* (mutation) the messages are taken from the end of the list
next_message_reversed(d, n) == d.messages[Len(d.messages) - n]

\* the message execute_messages calls after n responses were collected
next_message(d, n) == d.messages[n + 1]

\* (mutation) only the first response is scanned
trapped_responses_first_only(responses) ==
    IF responses # <<>> /\ is_contract_trapped(responses[1])
    THEN <<responses[1]>>
    ELSE <<>>

\* (mutation) the responses are not scanned for traps
trapped_responses_none(responses) == <<>>

\* the responses check_invariants hands to display_trap, in order
trapped_responses(responses) ==
    SelectSeq(responses, LAMBDA r : is_contract_trapped(r))

\* the message check_invariants hands to display_trap
trap_message(d, responses) == d.messages[1]

\* "\xHH" of write_dict_entry: the two upper-case hex digits of a byte
HexDigits == <<"0", "1", "2", "3", "4", "5", "6", "7", "8", "9", "A", "B", "C", "D", "E", "F">>

hex_byte(b) == <<"\\x", HexDigits[(b \div 16) + 1], HexDigits[(b % 16) + 1]>>

RECURSIVE hex_bytes(_)
hex_bytes(bytes) ==
    IF bytes = <<>> THEN <<>> ELSE hex_byte(Head(bytes)) \o hex_bytes(Tail(bytes))

\* write_dict_header: File::create truncates, then three lines
write_dict_header ==
    <<<<"# Dictionary file for selectors">>,
      <<"# Lines starting with '#' and empty lines are ignored.">>,
      <<"delimiter=", "\"", "********", "\"">>>>

\* write_dict_entry: one quoted line per selector
write_dict_entry(selector) == <<"\"">> \o hex_bytes(selector) \o <<"\"">>

\* write_corpus_file: selector_{index}.bin holds the selector's bytes
write_corpus_file(files, index, selector) ==
    [i \in (DOMAIN files) \cup {index} |-> IF i = index THEN selector ELSE files[i]]

RECURSIVE write_corpus_files(_, _, _)
write_corpus_files(files, index, selectors) ==
    IF index >= Len(selectors)
    THEN files
    ELSE write_corpus_files(write_corpus_file(files, index, selectors[index + 1]),
                            index + 1, selectors)

\* build_corpus_and_dict
build_corpus_and_dict(disk, selectors) ==
    [corpus |-> write_corpus_files(disk.corpus, 0, selectors),
     dict |-> write_dict_header
              \o [k \in 1..Len(selectors) |-> write_dict_entry(selectors[k])]]

\* BugManager::from(invariants, self.setup.clone(), self.fuzzing_config.clone()):
\* the bridge's Storage is cloned into an object of the bug manager's own
bug_manager_from(h, invariant_selectors, bridge, config) ==
    [heap |-> [h EXCEPT !["bm_genesis"] = h[bridge.genesis]],
     bug_manager |-> [contract_bridge |-> [bridge EXCEPT !.genesis = "bm_genesis"],
                      invariant_selectors |-> invariant_selectors,
                      configuration |-> config]]

\* the bug manager before init_fuzzer has built one
NoBugManager ==
    [contract_bridge |-> [genesis |-> "bm_genesis", contract_address |-> ContractAddress,
                          json_specs |-> <<>>],
     invariant_selectors |-> <<>>,
     configuration |-> DefaultConfiguration]

\* Fuzzer::execute_harness, lines 80-90: the Fuzzer that fuzz or exec_seed is
\* called on; only the Fuzz arm calls set_config
execute_harness(m, bridge, configuration) ==
    IF m = "Fuzz"
    THEN set_config(Fuzzer_new(bridge), configuration)
    ELSE Fuzzer_new(bridge)

\* (mutation) the corpus and the dictionary are written before the invariants
\* are looked for
init_fuzzer_corpus_first(h, bridge, config, disk) ==
    LET selectors == extract_all(bridge.json_specs)
        found == extract_invariants(bridge.json_specs)
        kept == IF found = None THEN <<>> ELSE found[1]
        selectors_without_invariants ==
            SelectSeq(selectors, LAMBDA s : \A k \in 1..Len(kept) : kept[k] # s)
        bm == bug_manager_from(h, kept, bridge, config)
    IN  [panic |-> found = None,
         heap |-> IF found = None THEN h ELSE bm.heap,
         bug_manager |-> IF found = None THEN NoBugManager ELSE bm.bug_manager,
         disk |-> build_corpus_and_dict(disk, selectors_without_invariants)]

\* (mutation) the invariants are not taken out of the selectors
init_fuzzer_unfiltered(h, bridge, config, disk) ==
    LET selectors == extract_all(bridge.json_specs)
        found == extract_invariants(bridge.json_specs)
    IN  IF found = None
        THEN [panic |-> TRUE, heap |-> h, bug_manager |-> NoBugManager, disk |-> disk]
        ELSE LET bm == bug_manager_from(h, found[1], bridge, config)
             IN  [panic |-> FALSE, heap |-> bm.heap, bug_manager |-> bm.bug_manager,
                  disk |-> build_corpus_and_dict(disk, selectors)]

\* init_fuzzer, lines 198-227: extract_invariants(..).expect(..) panics when
\* the metadata has no invariant; the bug manager is built, then the corpus
\* and the dictionary are written
init_fuzzer(h, bridge, config, disk) ==
    LET selectors == extract_all(bridge.json_specs)
        found == extract_invariants(bridge.json_specs)
    IN  IF found = None
        THEN [panic |-> TRUE, heap |-> h, bug_manager |-> NoBugManager, disk |-> disk]
        ELSE LET selectors_without_invariants ==
                     SelectSeq(selectors,
                               LAMBDA s : \A k \in 1..Len(found[1]) : found[1][k] # s)
                 bm == bug_manager_from(h, found[1], bridge, config)
             IN  [panic |-> FALSE, heap |-> bm.heap, bug_manager |-> bm.bug_manager,
                  disk |-> build_corpus_and_dict(disk, selectors_without_invariants)]

\* (mutation) the invariants run on the bug manager's own genesis
check_invariants_on_genesis(c, bm) == bm.contract_bridge.genesis

\* the externality check_invariants runs in: chain.execute_with(|| ...)
check_invariants_chain(c, bm) == c

\* (mutation) the invariants are called from the end of the list
invariant_at_reversed(bm, n) == bm.invariant_selectors[Len(bm.invariant_selectors) - n]

\* are_invariants_passing: the invariant called after n invariants passed
invariant_at(bm, n) == bm.invariant_selectors[n + 1]

\* ------------------------------------------------------------ instrumenter
\* no InstrumenterEngine was made
NoEngine == [contract_dir |-> 0]

\* A statement of a parsed lib.rs: "plain" is any statement, with or without
\* a nested block; "cov_lit" is the macro call
\* ink::env::debug_println!("COV=<arg>"); "cov_fmt" is the macro call
\* ink::env::debug_println!("COV={}", <arg>).  line is the line of its span.
Stmt(kind, arg, block) == [kind |-> kind, arg |-> arg, line |-> 0, block |-> block]

\* rustfmt: one statement per line, a closing brace on a line of its own
RECURSIVE layout_block(_, _)
RECURSIVE layout_stmt(_, _)
layout_block(stmts, line) ==
    IF stmts = <<>>
    THEN [stmts |-> <<>>, next |-> line]
    ELSE LET h == layout_stmt(Head(stmts), line)
             t == layout_block(Tail(stmts), h.next)
         IN  [stmts |-> <<h.stmt>> \o t.stmts, next |-> t.next]

layout_stmt(stmt, line) ==
    IF stmt.block = None \/ stmt.block = Some(<<>>)
    THEN [stmt |-> [stmt EXCEPT !.line = line], next |-> line + 1]
    ELSE LET inner == layout_block(stmt.block[1], line + 1)
         IN  [stmt |-> [stmt EXCEPT !.line = line, !.block = Some(inner.stmts)],
              next |-> inner.next + 1]

rustfmt(block) == layout_block(block, FirstLine).stmts

\* the text of a lib.rs, as tokens: BeaconHead is the text
\* `ink::env::debug_println!("COV=`, BeaconTail the text `")`
BeaconHead == "ink::env::debug_println!(\"COV="
BeaconTail == "\")"

DigitTokens == <<"0", "1", "2", "3", "4", "5", "6", "7", "8", "9">>

RECURSIVE digits(_)
digits(n) ==
    IF n < 10 THEN <<DigitTokens[n + 1]>> ELSE digits(n \div 10) \o <<DigitTokens[(n % 10) + 1]>>

RECURSIVE to_string(_)
to_string(stmts) ==
    IF stmts = <<>>
    THEN <<>>
    ELSE LET stmt == Head(stmts)
             text == CASE stmt.kind = "cov_lit" ->
                            <<BeaconHead>> \o digits(stmt.arg) \o <<BeaconTail, ";", "\n">>
                       [] stmt.kind = "cov_fmt" ->
                            <<BeaconHead, "{}", "\"", ",", " ">> \o digits(stmt.arg)
                            \o <<")", ";", "\n">>
                       [] OTHER ->
                            IF stmt.block = None
                            THEN <<"stmt", ";", "\n">>
                            ELSE <<"stmt", " ", "{", "\n">> \o to_string(stmt.block[1])
                                 \o <<"}", "\n">>
         IN  text \o to_string(Tail(stmts))

is_digit(token) == \E k \in 1..Len(DigitTokens) : DigitTokens[k] = token

\* a token that ends in a word character (\w)
is_word(token) == is_digit(token) \/ token \in {"stmt", "w"}

\* at position i: ink::env::debug_println!\("COV=\d+"\)
matches_at(text, i) ==
    /\ text[i] = BeaconHead
    /\ \E j \in (i + 1)..(Len(text) - 1) :
          /\ \A k \in (i + 1)..j : is_digit(text[k])
          /\ text[j + 1] = BeaconTail

\* (mutation) the pattern without the word boundary
already_instrumented_no_boundary(text) == \E i \in 1..Len(text) : matches_at(text, i)

\* already_instrumented: Regex \bink::env::debug_println!\("COV=\d+"\) is_match
already_instrumented(text) ==
    \E i \in 1..Len(text) :
        /\ i = 1 \/ ~is_word(text[i - 1])
        /\ matches_at(text, i)

\* fork: the contract directory is copied under a new name in /tmp
\* (fs::copy of a file onto itself opens it with truncate and leaves it empty)
fork(d, contract_dir, new_dir) ==
    [x \in (DOMAIN d) \cup {new_dir} |->
        IF x # new_dir THEN d[x]
        ELSE IF new_dir = contract_dir THEN <<>>
        ELSE d[contract_dir]]

\* the beacon of a statement: ink::env::debug_println!("COV={}", line)
beacon(line) == Stmt("cov_fmt", line, None)

\* (mutation) the visitor does not go into the statements
RECURSIVE visit_block_mut_flat(_)
visit_block_mut_flat(stmts) ==
    IF stmts = <<>>
    THEN <<>>
    ELSE <<beacon(Head(stmts).line), Head(stmts)>> \o visit_block_mut_flat(Tail(stmts))

\* ContractCovUpdater::visit_block_mut: before each statement its beacon;
\* visit_stmt_mut goes into the blocks of the statement
RECURSIVE visit_block_mut(_)
visit_block_mut(stmts) ==
    IF stmts = <<>>
    THEN <<>>
    ELSE LET stmt == Head(stmts)
             pre_stmt == beacon(stmt.line)
             visited == IF stmt.block = None
                        THEN stmt
                        ELSE [stmt EXCEPT !.block = Some(visit_block_mut(stmt.block[1]))]
         IN  <<pre_stmt, visited>> \o visit_block_mut(Tail(stmts))

\* parse_and_visit: visit_file_mut reaches every block of the file
parse_and_visit(ast) == visit_block_mut(ast)

\* save_and_format: the file is written, then formatted
save_and_format(d, lib_rs, ast) == [d EXCEPT ![lib_rs] = rustfmt(ast)]

\* InstrumenterEngine::instrument
instrument(e, d, new_dir) ==
    LET forked == fork(d, e.contract_dir, new_dir)
        read == forked[new_dir]
        moved == [e EXCEPT !.contract_dir = new_dir]
    IN  IF already_instrumented(to_string(read))
        THEN [engine |-> moved, dirs |-> forked, result |-> "Err", modified |-> None]
        ELSE LET modified_code == parse_and_visit(read)
             IN  [engine |-> moved, dirs |-> save_and_format(forked, new_dir, modified_code),
                  result |-> "Ok", modified |-> Some(modified_code)]

\* The lib.rs files a contract directory can hold.
Leaves == {Stmt("plain", 0, None), Stmt("cov_lit", 12, None)}

Nest(blocks) == {Stmt("plain", 0, Some(b)) : b \in blocks}

Blocks0 == SeqsUpTo({Stmt("plain", 0, None)}, MaxStmts)
Blocks1 == SeqsUpTo(Leaves \cup Nest(Blocks0), MaxStmts)
Blocks2 == {<<stmt>> : stmt \in Nest(Blocks1)}

Sources == {rustfmt(b) : b \in Blocks1 \cup Blocks2}

\* The source texts already_instrumented is asked about.
Texts == SeqsUpTo({"w", " ", "1", BeaconHead, BeaconTail}, MaxTextLen)

\* -------------------------------------------------------------------- Init
Init ==
    /\ contract \in 0..(NumContracts - 1)
    /\ mode \in {"Fuzz", "ExecuteOneInput"}
    /\ cfg_fuzzing \in BOOLEAN
    /\ \E json_specs \in {Metadata, MetadataNoInvariants} :
           setup = [genesis |-> "genesis", contract_address |-> ContractAddress,
                    json_specs |-> json_specs]
    /\ ziggy_config \in Configurations
    /\ deploy = Deployed
    /\ fuzzing_config = execute_harness(mode, setup, ziggy_config).fuzzing_config
    /\ bug_manager = NoBugManager
    /\ heap = [genesis |-> Some(GenesisStorage), bm_genesis |-> None, fork |-> None]
    /\ pc = "init_fuzzer"
    /\ warm = FALSE
    /\ decoded_msgs = NoInput
    /\ chain = NoChain
    /\ coverage = {}
    /\ all_msg_responses = <<>>
    /\ inv_i = 0
    /\ calls = <<>>
    /\ report = NoReport
    /\ done_steps = {}
    /\ cov_file = {}
    /\ redirected = {}
    /\ data = <<>>
    /\ corpus = <<>>
    /\ dict = <<>>
    /\ dirs = <<>>
    /\ engine = NoEngine
    /\ runs = <<>>
    /\ code = <<>>
    /\ detected = None

\* ----------------------------------------------------------------- actions
\* fuzz / exec_seed: init_fuzzer runs once, before the first harness call
InitFuzzer ==
    /\ pc = "init_fuzzer"
    /\ LET r == init_fuzzer(heap, setup, fuzzing_config, [corpus |-> corpus, dict |-> dict])
       IN  /\ pc' = IF r.panic THEN "panicked" ELSE "idle"
           /\ heap' = r.heap
           /\ bug_manager' = r.bug_manager
           /\ corpus' = r.disk.corpus
           /\ dict' = r.disk.dict
    /\ UNCHANGED <<contract, mode, cfg_fuzzing, setup, fuzzing_config, ziggy_config, deploy, warm, decoded_msgs,
                   chain, coverage, all_msg_responses, inv_i, calls, report, done_steps,
                   cov_file, redirected, data, instrument_vars>>

\* harness, lines 147-157: the decoded input, early exit, fork the genesis,
\* timestamp
harness(input) ==
    /\ pc = "idle"
    /\ decoded_msgs' = input
    /\ IF should_stop_now(bug_manager, input)
       THEN /\ pc' = "returned"
            /\ UNCHANGED <<heap, chain>>
       ELSE /\ LET f == new_externalities(heap, setup)
               IN  /\ chain' = f.ref
                   /\ heap' = [f.heap EXCEPT ![f.ref] = Some(timestamp(f.heap[f.ref][1], 0))]
            /\ pc' = "execute_messages"
    /\ coverage' = {}
    /\ UNCHANGED <<process_vars, disk_vars, instrument_vars, warm, all_msg_responses, inv_i, calls, report,
                   done_steps, cov_file, redirected>>

\* the driver hands over an input that decodes to `input`
HarnessStart(input) == harness(input) /\ UNCHANGED data

\* execute_messages: one turn of the loop
ExecuteMessage ==
    /\ pc = "execute_messages"
    /\ Len(all_msg_responses) < Len(decoded_msgs.messages)
    /\ LET message == next_message(decoded_msgs, Len(all_msg_responses))
           who == origin_into(decoded_msgs.origin)
           value == transfer_value(message)
           before == heap[chain][1]
           r == call(contract, setup, before, message.payload, who, value, fuzzing_config)
       IN  /\ heap' = [heap EXCEPT ![chain] = Some(r.storage)]
           /\ coverage' = add_cov(coverage, r.response.debug_message)
           /\ all_msg_responses' = Append(all_msg_responses, r.response)
           /\ calls' = Append(calls, [kind |-> "message", payload |-> message.payload,
                                      who |-> AccountId32(who), value |-> value,
                                      on |-> chain, before |-> before,
                                      after |-> r.storage, response |-> r.response])
    /\ UNCHANGED <<process_vars, disk_vars, instrument_vars, data, pc, warm, decoded_msgs, chain, inv_i, report,
                   done_steps, cov_file, redirected>>

\* execute_messages returns its responses
ExecuteMessagesReturn ==
    /\ pc = "execute_messages"
    /\ Len(all_msg_responses) >= Len(decoded_msgs.messages)
    /\ pc' = "check_invariants"
    /\ UNCHANGED <<process_vars, disk_vars, instrument_vars, data, heap, warm, decoded_msgs, chain, coverage,
                   all_msg_responses, inv_i, calls, report, done_steps, cov_file,
                   redirected>>

\* check_invariants, lines 291-296: the trap scan; display_trap panics
TrapScan ==
    /\ pc = "check_invariants"
    /\ LET trapped == trapped_responses(all_msg_responses)
       IN  IF trapped # <<>>
           THEN LET message == trap_message(decoded_msgs, all_msg_responses)
                IN  /\ report' = [kind |-> "trap", messages |-> <<message>>,
                                  origin |-> message.origin,
                                  responses |-> <<trapped[1]>>, invariant |-> None]
                    /\ pc' = "panicked"
           ELSE /\ pc' = "are_invariants_passing"
                /\ UNCHANGED report
    /\ UNCHANGED <<process_vars, disk_vars, instrument_vars, data, heap, warm, decoded_msgs, chain, coverage,
                   all_msg_responses, inv_i, calls, done_steps, cov_file, redirected>>

\* are_invariants_passing: one turn of the loop; on a failure check_invariants
\* calls display_invariant, which panics
CallInvariant ==
    /\ pc = "are_invariants_passing"
    /\ inv_i < Len(bug_manager.invariant_selectors)
    /\ LET invariant == invariant_at(bug_manager, inv_i)
           who == origin_into(decoded_msgs.origin)
           on == check_invariants_chain(chain, bug_manager)
           before == heap[on][1]
           r == call(contract, bug_manager.contract_bridge, before, invariant, who, 0,
                     bug_manager.configuration)
       IN  /\ heap' = [heap EXCEPT ![on] = Some(r.storage)]
           /\ calls' = Append(calls, [kind |-> "invariant", payload |-> invariant,
                                      who |-> AccountId32(who), value |-> 0,
                                      on |-> on, before |-> before,
                                      after |-> r.storage, response |-> r.response])
           /\ inv_i' = inv_i + 1
           /\ IF invariant_failed(r.response)
              THEN /\ report' = [kind |-> "invariant",
                                 messages |-> decoded_msgs.messages,
                                 origin |-> decoded_msgs.origin,
                                 responses |-> all_msg_responses,
                                 invariant |-> Some(<<invariant, r.response>>)]
                   /\ pc' = "panicked"
              ELSE UNCHANGED <<report, pc>>
    /\ UNCHANGED <<process_vars, disk_vars, instrument_vars, data, warm, decoded_msgs, chain, coverage,
                   all_msg_responses, done_steps, cov_file, redirected>>

\* are_invariants_passing returns Ok(()), check_invariants returns
InvariantsPass ==
    /\ pc = "are_invariants_passing"
    /\ inv_i >= Len(bug_manager.invariant_selectors)
    /\ pc' = "checked"
    /\ UNCHANGED <<process_vars, disk_vars, instrument_vars, data, heap, warm, decoded_msgs, chain, coverage,
                   all_msg_responses, inv_i, calls, report, done_steps, cov_file,
                   redirected>>

\* harness, lines 171-183: save (unless cfg(fuzzing)), then redirect_coverage
SaveAndRedirect ==
    /\ pc = "checked"
    /\ IF cfg_fuzzing
       THEN /\ done_steps' = {"redirect_coverage"}
            /\ UNCHANGED cov_file
       ELSE /\ done_steps' = {"save", "pretty_print", "redirect_coverage"}
            /\ cov_file' = save(cov_file, coverage)
    /\ redirected' = redirect_coverage(redirected, coverage)
    /\ pc' = "returned"
    /\ UNCHANGED <<process_vars, disk_vars, instrument_vars, data, heap, warm, decoded_msgs, chain, coverage,
                   all_msg_responses, inv_i, calls, report>>

\* harness returns: its locals are dropped; the driver supplies the next input
\* (fuzz), or the process ends (exec_seed)
Return ==
    /\ pc = "returned"
    /\ pc' = IF mode = "Fuzz" THEN "idle" ELSE "exited"
    /\ warm' = (warm \/ (chain # NoChain /\ heap[chain] # Some(GenesisOf(contract))))
    /\ heap' = [heap EXCEPT !["fork"] = None]
    /\ decoded_msgs' = NoInput
    /\ chain' = NoChain
    /\ coverage' = {}
    /\ all_msg_responses' = <<>>
    /\ inv_i' = 0
    /\ calls' = <<>>
    /\ done_steps' = {}
    /\ UNCHANGED <<process_vars, disk_vars, instrument_vars, data, report, cov_file, redirected>>

Next ==
    \/ InitFuzzer
    \/ \E input \in OneInputs : HarnessStart(input)
    \/ ExecuteMessage
    \/ ExecuteMessagesReturn
    \/ TrapScan
    \/ CallInvariant
    \/ InvariantsPass
    \/ SaveAndRedirect
    \/ Return

Spec == Init /\ [][Next]_vars

\* ------------------------------------------- the harness on raw inputs
\* the driver hands over raw bytes: harness decodes them with parse_input
HarnessData(input) ==
    /\ data' = input
    /\ harness(parse_input(input, setup.json_specs, fuzzing_config))

\* `phink execute <seed>` on a contract with invariants
InitParse ==
    /\ Init
    /\ contract = 0
    /\ mode = "ExecuteOneInput"
    /\ ~cfg_fuzzing
    /\ setup.json_specs = Metadata

NextParse ==
    \/ InitFuzzer
    \/ pc = "idle" /\ \E input \in RawInputs : HarnessData(input)
    \/ ExecuteMessage
    \/ ExecuteMessagesReturn
    \/ TrapScan
    \/ CallInvariant
    \/ InvariantsPass
    \/ SaveAndRedirect
    \/ Return

SpecParse == InitParse /\ [][NextParse]_vars

\* ------------------------------------------------------------- the claims
IsTrap(r) == ~r.result.ok /\ r.result.module /\ r.result.message = "ContractTrapped"
IsErr(r) == ~r.result.ok

CallsOfKind(kind) == {k \in 1..Len(calls) : calls[k].kind = kind}

InHarness == chain # NoChain
MessagesExecuted ==
    InHarness /\ pc \in {"check_invariants", "are_invariants_passing", "checked",
                         "returned", "panicked"}

\* The responses of the messages of d executed alone, in a fresh process:
\* from the storage the deployment left, after the timestamp was set.
RECURSIVE ResponsesFrom(_, _, _, _, _)
ResponsesFrom(c, st, d, cfg, k) ==
    IF k > Len(d.messages)
    THEN <<>>
    ELSE LET m == d.messages[k]
             r == call(c, [genesis |-> "genesis", contract_address |-> ContractAddress],
                       st, m.payload, d.origin % 256,
                       IF m.is_payable THEN m.value_token ELSE 0, cfg)
         IN  <<r.response>> \o ResponsesFrom(c, r.storage, d, cfg, k + 1)

ResponsesAlone(c, d, cfg) ==
    ResponsesFrom(c, [GenesisStorage EXCEPT !.now = 1], d, cfg, 1)

\* C1: per-iteration isolation. Whatever iterations ran before, the responses
\* the harness obtains for an input are the responses the input obtains when
\* it is run alone from the genesis.
C1_IterationIsolation ==
    MessagesExecuted =>
        all_msg_responses = ResponsesAlone(contract, decoded_msgs, fuzzing_config)

\* C1 witness: an earlier iteration changed its fork, and this iteration has
\* executed two messages, the first of which changed the storage again.
C1_Witness ==
    /\ warm
    /\ MessagesExecuted
    /\ Len(all_msg_responses) = 2
    /\ calls[1].after # calls[1].before

\* C2: the genesis snapshots of the ContractBridge (the fuzzer's and the bug
\* manager's clone, once init_fuzzer has made it) keep the value the
\* deployment left, in every state.
C2_GenesisUnchanged ==
    /\ heap["genesis"] = Some(GenesisStorage)
    /\ heap["bm_genesis"] = IF bug_manager = NoBugManager THEN None ELSE Some(GenesisStorage)

\* C2 witness: an iteration ended in an invariant finding after a message and
\* an invariant call both wrote to the storage of the fork.
C2_Witness ==
    /\ pc = "panicked"
    /\ report.kind = "invariant"
    /\ \E k \in CallsOfKind("message") : calls[k].after # calls[k].before
    /\ \E k \in CallsOfKind("invariant") : calls[k].after # calls[k].before
    /\ heap["fork"] # Some(GenesisStorage)

InvariantSelectorSet == {invariants[j] : j \in 1..Len(invariants)}

MustStop(d) ==
    \/ Len(d.messages) = 0
    \/ \E k \in 1..Len(d.messages) :
          /\ Len(d.messages[k].payload) >= 4
          /\ SubSeq(d.messages[k].payload, 1, 4) \in InvariantSelectorSet

\* C3: an input whose message list is empty or holds a message with an
\* invariant selector makes the harness return at once: no fork, no call, no
\* save, no redirect; every other input goes on to execute_messages.
C3_EarlyExit ==
    [][/\ (pc = "idle" /\ pc' # "idle") =>
            IF MustStop(decoded_msgs')
            THEN /\ pc' = "returned"
                 /\ chain' = NoChain
                 /\ calls' = <<>>
                 /\ UNCHANGED <<heap, cov_file, redirected, done_steps, report>>
            ELSE /\ pc' = "execute_messages"
                 /\ chain' # NoChain
       /\ (pc = "returned" /\ chain = NoChain) =>
            /\ calls = <<>>
            /\ pc' \in {"idle", "exited"}
            /\ UNCHANGED <<cov_file, redirected, report>>
      ]_vars

\* C3 witness: an input of two messages, the second with an invariant
\* selector, was refused after an earlier iteration had saved coverage.
C3_Witness ==
    /\ pc = "returned"
    /\ chain = NoChain
    /\ Len(decoded_msgs.messages) = 2
    /\ SubSeq(decoded_msgs.messages[1].payload, 1, 4) \notin InvariantSelectorSet
    /\ SubSeq(decoded_msgs.messages[2].payload, 1, 4) \in InvariantSelectorSet
    /\ cov_file # {}

\* C4: every invariant call comes after the calls of all the messages, and is
\* made on the fork, in the storage the call before it left.
C4_InvariantsSeeFinalState ==
    \A k \in CallsOfKind("invariant") :
        /\ Len(all_msg_responses) = Len(decoded_msgs.messages)
        /\ Cardinality(CallsOfKind("message")) = Len(decoded_msgs.messages)
        /\ \A j \in CallsOfKind("message") : j < k
        /\ k > 1
        /\ calls[k].on = chain
        /\ calls[k].on = "fork"
        /\ calls[k].before = calls[k - 1].after

\* C4 witness: two messages both changed the storage, and an invariant was
\* called in the storage the second one left.
C4_Witness ==
    /\ Len(decoded_msgs.messages) = 2
    /\ Len(calls) >= 3
    /\ calls[1].after # calls[1].before
    /\ calls[2].after # calls[2].before
    /\ calls[3].kind = "invariant"
    /\ calls[3].before = calls[2].after
    /\ calls[3].before # [GenesisStorage EXCEPT !.now = 1]

\* C5: the k-th bridge call of execute_messages carries the payload of the
\* k-th message and the account of the input's origin, and its response is
\* the k-th response; when execute_messages is over there is one call per
\* message.
C5_MessagesInOrder ==
    /\ Cardinality(CallsOfKind("message")) = Len(all_msg_responses)
    /\ Len(all_msg_responses) <= Len(decoded_msgs.messages)
    /\ MessagesExecuted => Len(all_msg_responses) = Len(decoded_msgs.messages)
    /\ \A k \in 1..Len(all_msg_responses) :
          /\ calls[k].kind = "message"
          /\ calls[k].payload = decoded_msgs.messages[k].payload
          /\ calls[k].who = [i \in 1..32 |-> decoded_msgs.origin]
          /\ all_msg_responses[k] = calls[k].response

\* C5 witness: two messages with different payloads were executed and got
\* different responses.
C5_Witness ==
    /\ MessagesExecuted
    /\ Len(all_msg_responses) = 2
    /\ decoded_msgs.messages[1].payload # decoded_msgs.messages[2].payload
    /\ all_msg_responses[1] # all_msg_responses[2]

NonTrapError == \E i \in 1..Len(all_msg_responses) :
                    IsErr(all_msg_responses[i]) /\ ~IsTrap(all_msg_responses[i])
NoTrap == \A i \in 1..Len(all_msg_responses) : ~IsTrap(all_msg_responses[i])

\* C6: once a message got a dispatch error that is not ContractTrapped, the
\* rest of the sequence is still executed; and unless a message trapped, the
\* invariants are then called: the iteration ends with all of them called, or
\* with the finding of the invariant that failed.
C6_DispatchErrorDoesNotAbort ==
    (InHarness /\ NonTrapError /\ pc # "execute_messages") =>
        /\ Len(all_msg_responses) = Len(decoded_msgs.messages)
        /\ (NoTrap /\ pc \in {"checked", "returned"}) =>
              Cardinality(CallsOfKind("invariant")) = Len(invariants)
        /\ (NoTrap /\ pc = "panicked") =>
              (report.kind = "invariant" /\ CallsOfKind("invariant") # {})

\* C6 witness: the first of two messages ran out of gas, the second was still
\* called and succeeded, and every invariant was called and passed.
C6_Witness ==
    /\ pc = "returned"
    /\ Len(all_msg_responses) = 2
    /\ all_msg_responses[1].result.message = "OutOfGas"
    /\ all_msg_responses[2].result.ok
    /\ Cardinality(CallsOfKind("invariant")) = Len(invariants)

\* C7: a trap report is made only when execute_messages is over, with no
\* invariant called, and it ends the process; and no iteration with a trapped
\* response gets past the trap scan otherwise.
C7_TrapEndsProcess ==
    /\ report.kind = "trap" =>
          /\ pc = "panicked"
          /\ ~NoTrap
          /\ Len(all_msg_responses) = Len(decoded_msgs.messages)
          /\ CallsOfKind("invariant") = {}
          /\ done_steps = {}
    /\ (InHarness /\ ~NoTrap /\ pc \notin {"execute_messages", "check_invariants"}) =>
          (pc = "panicked" /\ report.kind = "trap")

\* C7 witness: the second of two messages trapped, the first did not.
C7_Witness ==
    /\ pc = "panicked"
    /\ report.kind = "trap"
    /\ Len(all_msg_responses) = 2
    /\ ~IsTrap(all_msg_responses[1])
    /\ IsTrap(all_msg_responses[2])

FirstTrapped == CHOOSE i \in 1..Len(all_msg_responses) :
                    /\ IsTrap(all_msg_responses[i])
                    /\ \A j \in 1..(i - 1) : ~IsTrap(all_msg_responses[j])

\* C8: the trap report shows the message whose response trapped, together
\* with that response.
C8_TrapReportShowsTrappedMessage ==
    report.kind = "trap" =>
        /\ report.responses = <<all_msg_responses[FirstTrapped]>>
        /\ report.messages = <<decoded_msgs.messages[FirstTrapped]>>

\* C9: an invariant call is the reported failure exactly when its result is
\* Err, whatever the dispatch error; a call with an Ok result, reverted or
\* not, is never one.
C9_InvariantFailsIffErr ==
    \A k \in CallsOfKind("invariant") :
        IsErr(calls[k].response) <=>
            /\ pc = "panicked"
            /\ report.kind = "invariant"
            /\ report.invariant = Some(<<calls[k].payload, calls[k].response>>)
            /\ k = Len(calls)

\* C9 witness: the first invariant returned Ok with the revert flag and was
\* not a failure, the second ran out of gas and is the reported failure.
C9_Witness ==
    /\ pc = "panicked"
    /\ report.kind = "invariant"
    /\ Cardinality(CallsOfKind("invariant")) = 2
    /\ calls[Len(calls) - 1].kind = "invariant"
    /\ calls[Len(calls) - 1].response.result.revert
    /\ calls[Len(calls)].response.result.message = "OutOfGas"

\* C10: no step removes a line from the run-wide coverage set.
C10_CoverageMonotone == [][cov_file \subseteq cov_file']_vars

\* C10 witness: an iteration has saved lines that were not in the set, and
\* the set keeps lines of earlier iterations that this one did not see.
C10_Witness ==
    /\ pc = "returned"
    /\ "save" \in done_steps
    /\ coverage # {}
    /\ cov_file \ coverage # {}

\* the metadata declares no invariant message
NoInvariantDeclared == \A k \in 1..Len(setup.json_specs) : ~setup.json_specs[k].phink

\* C17: when the metadata declares no invariant, the process gets no further
\* than init_fuzzer: it ends there in a panic, no harness iteration starts, no
\* call is made, and neither a corpus file nor the dictionary is written.
C17_NoInvariantAbortsSetup ==
    NoInvariantDeclared =>
        /\ pc \in {"init_fuzzer", "panicked"}
        /\ DOMAIN corpus = {}
        /\ dict = <<>>
        /\ decoded_msgs = NoInput
        /\ chain = NoChain
        /\ calls = <<>>
        /\ bug_manager = NoBugManager

\* C17 witness: init_fuzzer has panicked on a metadata without invariants.
C17_Witness ==
    /\ NoInvariantDeclared
    /\ Len(setup.json_specs) > 0
    /\ pc = "panicked"
    /\ report.kind = "none"

\* ------------------------------------------ the harness on the sample
encode_register(name) == SelRegister \o name
encode_set_address(name, new_address) == SelSetAddress \o name \o new_address
encode_transfer(name, to, number) == SelTransfer \o name \o to \o encode_i32(number)

Message(payload, is_payable, value_token, origin) ==
    [payload |-> payload, is_payable |-> is_payable, value_token |-> value_token,
     origin |-> origin]

\* the decoded messages that are explored, from origin o
DnsMessages(o) ==
    {Message(encode_transfer(Name99, bob, 80), FALSE, 0, o),
     Message(encode_transfer(Name99, bob, 69), FALSE, 0, o),
     Message(encode_transfer(Name99, bob, 139), FALSE, 0, o),
     Message(encode_register(FORBIDDEN_DOMAIN), FALSE, 0, o),
     Message(encode_set_address(FORBIDDEN_DOMAIN, bob), FALSE, 0, o),
     Message(encode_set_address(Name99, bob), FALSE, 0, o),
     Message(SelPayMe, TRUE, 1377, o)}

DnsInputs ==
    UNION {{[messages |-> ms, origin |-> o] : ms \in SeqsUpTo(DnsMessages(o), MaxDnsMsgs)} :
           o \in {0, 1}}

\* `phink execute <seed>` on the deployed sample
InitDns ==
    /\ contract = Dns
    /\ mode = "ExecuteOneInput"
    /\ cfg_fuzzing = FALSE
    /\ setup = [genesis |-> "genesis", contract_address |-> ContractAddress,
                json_specs |-> DnsMetadata]
    /\ fuzzing_config = DefaultConfiguration
    /\ ziggy_config = DefaultConfiguration
    /\ deploy = Deployed
    /\ bug_manager = NoBugManager
    /\ heap = [genesis |-> Some(DnsGenesis), bm_genesis |-> None, fork |-> None]
    /\ pc = "init_fuzzer"
    /\ warm = FALSE
    /\ decoded_msgs = NoInput
    /\ chain = NoChain
    /\ coverage = {}
    /\ all_msg_responses = <<>>
    /\ inv_i = 0
    /\ calls = <<>>
    /\ report = NoReport
    /\ done_steps = {}
    /\ cov_file = {}
    /\ redirected = {}
    /\ data = <<>>
    /\ corpus = <<>>
    /\ dict = <<>>
    /\ dirs = <<>>
    /\ engine = NoEngine
    /\ runs = <<>>
    /\ code = <<>>
    /\ detected = None

NextDns ==
    \/ InitFuzzer
    \/ pc = "idle" /\ \E input \in DnsInputs : HarnessStart(input)
    \/ ExecuteMessage
    \/ ExecuteMessagesReturn
    \/ TrapScan
    \/ CallInvariant
    \/ InvariantsPass
    \/ SaveAndRedirect
    \/ Return

SpecDns == InitDns /\ [][NextDns]_vars

\* ------------------------------------------------- `phink instrument`
\* the variables of the fuzzer in a process that does not fuzz
NotFuzzing ==
    /\ contract = 0
    /\ mode = "Fuzz"
    /\ cfg_fuzzing = FALSE
    /\ setup = [genesis |-> "genesis", contract_address |-> ContractAddress,
                json_specs |-> Metadata]
    /\ fuzzing_config = DefaultConfiguration
    /\ ziggy_config = DefaultConfiguration
    /\ deploy = Deployed
    /\ bug_manager = NoBugManager
    /\ heap = [genesis |-> None, bm_genesis |-> None, fork |-> None]
    /\ pc = "exited"
    /\ warm = FALSE
    /\ decoded_msgs = NoInput
    /\ chain = NoChain
    /\ coverage = {}
    /\ all_msg_responses = <<>>
    /\ inv_i = 0
    /\ calls = <<>>
    /\ report = NoReport
    /\ done_steps = {}
    /\ cov_file = {}
    /\ redirected = {}
    /\ data = <<>>
    /\ corpus = <<>>
    /\ dict = <<>>

fuzzer_vars == <<process_vars, disk_vars, heap, pc, warm, decoded_msgs, chain, coverage,
                 all_msg_responses, inv_i, calls, report, done_steps, cov_file,
                 redirected, data>>

\* main, Commands::Instrument: Instrumenter::new(contract_path).instrument()
\* on a directory that exists: the contract's, or an earlier fork
PhinkInstrument(contract_path) ==
    /\ Len(runs) < MaxRuns
    /\ LET new_dir == Len(runs) + 1
           r == instrument([contract_dir |-> contract_path], dirs, new_dir)
       IN  /\ engine' = r.engine
           /\ dirs' = r.dirs
           /\ runs' = Append(runs, [contract_path |-> contract_path, new_dir |-> new_dir,
                                    read |-> dirs[contract_path], result |-> r.result,
                                    modified |-> r.modified])
    /\ UNCHANGED <<fuzzer_vars, code, detected>>

InitInstrument ==
    /\ NotFuzzing
    /\ \E source \in Sources : dirs = [x \in {0} |-> source]
    /\ engine = NoEngine
    /\ runs = <<>>
    /\ code = <<>>
    /\ detected = None

NextInstrument == \E contract_path \in DOMAIN dirs : PhinkInstrument(contract_path)

SpecInstrument == InitInstrument /\ [][NextInstrument]_vars

\* already_instrumented is asked about a source text
Detect ==
    /\ detected = None
    /\ detected' = Some(already_instrumented(code))
    /\ UNCHANGED <<fuzzer_vars, dirs, engine, runs, code>>

InitDetect ==
    /\ NotFuzzing
    /\ dirs = <<>>
    /\ engine = NoEngine
    /\ runs = <<>>
    /\ code \in Texts
    /\ detected = None

NextDetect == Detect

SpecDetect == InitDetect /\ [][NextDetect]_vars

\* ---------------------------------------------- claims on the input decoder
\* the harness has decoded the raw input `data`
Decoded == pc \in {"execute_messages", "check_invariants", "are_invariants_passing",
                   "checked", "returned", "panicked"}

\* the fragments of the raw input, and those that start with the selector of
\* a message that is no invariant and carry its arguments
FragmentsOf(input) == IF input = <<>> THEN <<>> ELSE split(Tail(input), Delimiter)

Accepted(fragment) ==
    \E k \in 1..Len(Metadata) :
        /\ ~Metadata[k].phink
        /\ Len(fragment) >= SelectorLen + Metadata[k].args
        /\ SubSeq(fragment, 1, SelectorLen) = Metadata[k].selector
        /\ (Metadata[k].payable \/ Len(fragment) = SelectorLen + Metadata[k].args)

AcceptedFragments(input) == SelectSeq(FragmentsOf(input), Accepted)

\* C11: decoding yields at most MAX_MESSAGES_PER_EXEC messages: those of the
\* first four accepted fragments, in order; and no iteration makes more than
\* four message calls.
C11_AtMostFourMessages ==
    /\ Len(decoded_msgs.messages) <= MAX_MESSAGES_PER_EXEC
    /\ Cardinality(CallsOfKind("message")) <= MAX_MESSAGES_PER_EXEC
    /\ Decoded =>
          LET accepted == AcceptedFragments(data)
          IN  /\ Len(decoded_msgs.messages) = Min(Len(accepted), MAX_MESSAGES_PER_EXEC)
              /\ \A k \in 1..Len(decoded_msgs.messages) :
                    decoded_msgs.messages[k].payload =
                        SubSeq(accepted[k], 1, Len(decoded_msgs.messages[k].payload))

\* C11 witness: an input of five accepted fragments, the fifth unlike the
\* fourth, was decoded to four messages and all four were called.
C11_Witness ==
    /\ Decoded
    /\ Len(AcceptedFragments(data)) = 5
    /\ AcceptedFragments(data)[5] # AcceptedFragments(data)[4]
    /\ Len(decoded_msgs.messages) = 4
    /\ Cardinality(CallsOfKind("message")) = 4

FuzzableSelectorSet ==
    {Metadata[k].selector : k \in 1..Len(Metadata)} \ InvariantSelectorSet

\* C12: every decoded message starts with a selector of the metadata that is
\* no invariant; a fragment that does not is dropped; no invariant selector
\* is called as a fuzzed message.
C12_OnlyFuzzableSelectors ==
    /\ \A k \in 1..Len(decoded_msgs.messages) :
          /\ Len(decoded_msgs.messages[k].payload) >= SelectorLen
          /\ SubSeq(decoded_msgs.messages[k].payload, 1, SelectorLen) \in FuzzableSelectorSet
    /\ \A k \in CallsOfKind("message") :
          SubSeq(calls[k].payload, 1, SelectorLen) \notin InvariantSelectorSet
    /\ Decoded => Len(decoded_msgs.messages) <= Len(AcceptedFragments(data))

\* C12 witness: of three fragments, one with an invariant selector and one
\* with an unknown selector were dropped, and the one message left was called.
C12_Witness ==
    /\ Decoded
    /\ Len(FragmentsOf(data)) = 3
    /\ \E i \in 1..3 : FragmentsOf(data)[i] = SelInv1
    /\ \E i \in 1..3 : /\ Len(FragmentsOf(data)[i]) = SelectorLen
                       /\ FragmentsOf(data)[i] \notin FuzzableSelectorSet \cup InvariantSelectorSet
    /\ Len(decoded_msgs.messages) = 1
    /\ Cardinality(CallsOfKind("message")) = 1

\* C13: a raw input shorter than 4 bytes decodes to no message, and the
\* harness returns without a call.
C13_ShortInputDecodesToNothing ==
    Len(data) < 4 =>
        /\ decoded_msgs.messages = <<>>
        /\ calls = <<>>
        /\ chain = NoChain

\* C13 witness: the harness has returned on an input of three bytes.
C13_Witness ==
    /\ Len(data) = 3
    /\ pc = "returned"
    /\ report.kind = "none"

\* ------------------------------------------------ claims on the instrumenter
IsBeacon(stmt) == stmt.kind = "cov_fmt"

\* run k read a lib.rs that an earlier successful run wrote, beacons included
ReadsInstrumented(k) ==
    \E j \in 1..(k - 1) :
        /\ runs[j].result = "Ok"
        /\ runs[j].read # <<>>
        /\ runs[k].contract_path = runs[j].new_dir

\* two beacons in a row, in this block or in a block below it
RECURSIVE DoubleBeacon(_)
DoubleBeacon(stmts) ==
    \/ \E i \in 1..(Len(stmts) - 1) : IsBeacon(stmts[i]) /\ IsBeacon(stmts[i + 1])
    \/ \E i \in 1..Len(stmts) : stmts[i].block # None /\ DoubleBeacon(stmts[i].block[1])

\* C14: instrument on the output of an earlier instrument run is refused with
\* an error and the file is left as it was read, so that no statement gets a
\* second beacon.
C14_ReinstrumentRefused ==
    \A k \in 1..Len(runs) :
        ReadsInstrumented(k) =>
            /\ runs[k].result = "Err"
            /\ dirs[runs[k].new_dir] = runs[k].read
            /\ ~DoubleBeacon(dirs[runs[k].new_dir])

\* the instrumented block holds, for each statement of the original block in
\* order, one beacon with the line of the statement and then the statement,
\* and nothing else; and so for the blocks of the statements
RECURSIVE BeaconsInPlace(_, _)
BeaconsInPlace(original, instrumented) ==
    /\ Len(instrumented) = 2 * Len(original)
    /\ \A i \in 1..Len(original) :
          LET b == instrumented[2 * i - 1]
              stmt == instrumented[2 * i]
          IN  /\ IsBeacon(b)
              /\ b.arg = original[i].line
              /\ b.block = None
              /\ stmt.kind = original[i].kind
              /\ stmt.arg = original[i].arg
              /\ stmt.line = original[i].line
              /\ (stmt.block = None) = (original[i].block = None)
              /\ original[i].block # None =>
                    BeaconsInPlace(original[i].block[1], stmt.block[1])

\* C15: in the syntax tree instrument produces, every block at every depth
\* holds each original statement right after one beacon that carries the
\* statement's source line, in the original order, and no beacon at the end.
C15_BeaconBeforeEachStatement ==
    \A k \in 1..Len(runs) :
        runs[k].result = "Ok" => BeaconsInPlace(runs[k].read, runs[k].modified[1])

\* C15 witness: a file was instrumented whose block holds a statement with a
\* block of two statements, the first of them with a block of its own.
C15_Witness ==
    \E k \in 1..Len(runs) :
        /\ runs[k].result = "Ok"
        /\ Len(runs[k].read) = 1
        /\ runs[k].read[1].block # None
        /\ LET inner == runs[k].read[1].block[1]
           IN  /\ Len(inner) = 2
               /\ inner[1].block # None
               /\ inner[1].block[1] # <<>>
               /\ inner[2].line > inner[1].line + 1

\* the text holds ink::env::debug_println!("COV=<digits>") from position i on
OccursAt(text, i) ==
    \E n \in 1..Len(text) :
        /\ i + n + 1 <= Len(text)
        /\ text[i] = BeaconHead
        /\ \A k \in 1..n : text[i + k] \in {"0", "1", "2", "3", "4", "5", "6", "7", "8", "9"}
        /\ text[i + n + 1] = BeaconTail

\* C16 as stated: already_instrumented answers true exactly for the texts
\* that hold an occurrence of ink::env::debug_println!("COV=<digits>")
\* anywhere.
C16_DetectsAnyOccurrence ==
    detected # None => (detected[1] <=> \E i \in 1..Len(code) : OccursAt(code, i))

\* the character before position i is a letter, a digit or an underscore
AfterWordCharacter(text, i) ==
    i > 1 /\ text[i - 1] \in {"w", "stmt", "0", "1", "2", "3", "4", "5", "6", "7", "8", "9"}

\* C16 amended: already_instrumented answers true exactly for the texts that
\* hold an occurrence of ink::env::debug_println!("COV=<digits>") at the start
\* of the text or right after a character that is no word character.
C16_DetectsOccurrenceAtWordBoundary ==
    detected # None =>
        (detected[1] <=> \E i \in 1..Len(code) :
                            OccursAt(code, i) /\ ~AfterWordCharacter(code, i))

\* C16 witness: the pattern was found in a text where it comes after other
\* text and a blank.
C16_Witness ==
    /\ detected = Some(TRUE)
    /\ Len(code) = 5
    /\ code[1] = "w"
    /\ code[2] = " "
    /\ OccursAt(code, 3)

\* ------------------------------------------------ claims on the sample (dns)
\* the storage of the contract in the fork of this iteration
Store == heap[chain][1].store

Names == {HashDefault, FORBIDDEN_DOMAIN, Name99}

NoFindingMissed == pc \notin {"checked", "returned"}

ReportedInvariant(selector) ==
    pc = "panicked" => (report.kind = "invariant" /\ report.invariant[1][1] = selector)

\* the input is the one message transfer(name, bob, number), for some name
SingleTransfer(number) ==
    /\ Len(decoded_msgs.messages) = 1
    /\ \E name \in Names :
          decoded_msgs.messages[1].payload = encode_transfer(name, bob, number)

\* the input is transfer(name, bob, 80), register(FORBIDDEN_DOMAIN),
\* set_address(name', bob), for some names
NestedCallInput ==
    /\ Len(decoded_msgs.messages) = 3
    /\ \E name \in Names :
          decoded_msgs.messages[1].payload = encode_transfer(name, bob, 80)
    /\ decoded_msgs.messages[2].payload = encode_register(FORBIDDEN_DOMAIN)
    /\ \E name \in Names :
          decoded_msgs.messages[3].payload = encode_set_address(name, bob)

\* C18: after transfer(name, bob, 80), register(FORBIDDEN_DOMAIN) and
\* set_address(name, bob) from one origin on the fresh contract,
\* should_panic_after_three_calls is true, and the iteration ends in the
\* report of phink_assert_three_message_calls_required_to_crash.
C18_NestedCallsReported ==
    (MessagesExecuted /\ NestedCallInput) =>
        /\ Store.should_panic_after_three_calls = TRUE
        /\ NoFindingMissed
        /\ ReportedInvariant(SelThreeMessageCalls)

\* C19 as stated: a single transfer(name, bob, 69) on the fresh contract sets
\* dangerous_number to 69, and the iteration ends in the report of
\* phink_assert_dangerous_number.
C19_Transfer69Reported ==
    (MessagesExecuted /\ SingleTransfer(69)) =>
        /\ Store.dangerous_number = 69
        /\ NoFindingMissed
        /\ ReportedInvariant(SelDangerousNumber)

\* C19 amended: a single transfer(name, bob, 69) on the fresh contract is
\* rejected and leaves dangerous_number at 42: every invariant passes and the
\* iteration reports no finding.
C19_Transfer69Rejected ==
    (MessagesExecuted /\ SingleTransfer(69)) =>
        /\ all_msg_responses[1].result.revert
        /\ Store.dangerous_number = 42
        /\ pc # "panicked"
        /\ report.kind = "none"

\* C19 witness: the transfer with 69 came from the owner of the name (the
\* zero address owns an unregistered name), was rejected, and the invariants
\* passed.
C19_Witness ==
    /\ SingleTransfer(69)
    /\ decoded_msgs.origin = 0
    /\ pc = "checked"
    /\ all_msg_responses[1].result.revert
    /\ Store.dangerous_number = 42

\* the input is the one message pay_me, payable, decoded with value 1377
SinglePayMe ==
    /\ Len(decoded_msgs.messages) = 1
    /\ decoded_msgs.messages[1].payload = SelPayMe
    /\ decoded_msgs.messages[1].is_payable
    /\ decoded_msgs.messages[1].value_token = 1377

\* C20: a single pay_me decoded with value 1377 is called with 1377 as the
\* transferred value and sets leet_transfered; the iteration ends in the
\* report of phink_assert_cannot_transfer_1337.
C20_PayMeReported ==
    (MessagesExecuted /\ SinglePayMe) =>
        /\ calls[1].kind = "message"
        /\ calls[1].value = 1377
        /\ all_msg_responses[1].result.ok
        /\ Store.leet_transfered = TRUE
        /\ NoFindingMissed
        /\ ReportedInvariant(SelCannotTransfer1337)

\* C20 witness: pay_me was called with 1377 and
\* phink_assert_cannot_transfer_1337 is the reported invariant.
C20_Witness ==
    /\ SinglePayMe
    /\ pc = "panicked"
    /\ report.kind = "invariant"
    /\ report.invariant[1][1] = SelCannotTransfer1337
    /\ calls[1].value = 1377

\* ------------------------------------------------- are_invariants_passing
\* the invariant calls of this iteration, in the order they were made
InvariantCalls == SelectSeq(calls, LAMBDA c : c.kind = "invariant")

\* C22: the k-th invariant call carries the k-th invariant selector, value 0
\* and the account of the input's origin, and every invariant call before the
\* last one passed; a failed call is the reported one and the last one; the
\* check is passed only after every selector was called and none failed.
C22_InvariantsInOrderUntilFirstFailure ==
    /\ Len(InvariantCalls) <= Len(bug_manager.invariant_selectors)
    /\ \A k \in 1..Len(InvariantCalls) :
          /\ InvariantCalls[k].payload = bug_manager.invariant_selectors[k]
          /\ InvariantCalls[k].value = 0
          /\ InvariantCalls[k].who = [i \in 1..AccountIdLen |-> decoded_msgs.origin % 256]
          /\ k < Len(InvariantCalls) => InvariantCalls[k].response.result.ok
          /\ ~InvariantCalls[k].response.result.ok =>
                /\ pc = "panicked"
                /\ report.kind = "invariant"
                /\ report.invariant =
                       Some(<<bug_manager.invariant_selectors[k], InvariantCalls[k].response>>)
    /\ (InHarness /\ pc \in {"checked", "returned"}) =>
          /\ Len(InvariantCalls) = Len(bug_manager.invariant_selectors)
          /\ \A k \in 1..Len(InvariantCalls) : InvariantCalls[k].response.result.ok

\* C22 witness: the first invariant passed, the second failed and is the
\* reported one; both invariants are different selectors.
C22_Witness ==
    /\ pc = "panicked"
    /\ report.kind = "invariant"
    /\ Len(InvariantCalls) = 2
    /\ InvariantCalls[1].response.result.ok
    /\ ~InvariantCalls[2].response.result.ok
    /\ report.invariant[1][1] = bug_manager.invariant_selectors[2]
    /\ bug_manager.invariant_selectors[1] # bug_manager.invariant_selectors[2]
    /\ decoded_msgs.origin # 0

\* ---------------------------------------------- save and redirect_coverage
\* no message trapped, and every invariant was called and passed
IterationClean ==
    /\ InHarness
    /\ \A k \in 1..Len(all_msg_responses) :
          ~(/\ ~all_msg_responses[k].result.ok
            /\ all_msg_responses[k].result.module
            /\ all_msg_responses[k].result.message = "ContractTrapped")
    /\ Len(InvariantCalls) = Len(bug_manager.invariant_selectors)
    /\ \A k \in 1..Len(InvariantCalls) : InvariantCalls[k].response.result.ok

\* C23: save and redirect_coverage have run only in an iteration without a
\* trapped response in which every invariant passed; the coverage file and
\* the markers of the driver change in no other step, and an iteration that
\* ended in a finding has run neither.
C23_CoverageOnlyAfterCleanIteration ==
    /\ [](/\ done_steps # {} => (pc = "returned" /\ IterationClean)
          /\ pc = "panicked" => done_steps = {})
    /\ [][(cov_file' # cov_file \/ redirected' # redirected \/ done_steps' \ done_steps # {})
            => (pc = "checked" /\ pc' = "returned" /\ IterationClean)]_vars

\* C23 witness: a clean iteration has saved and redirected its coverage in a
\* process that is not built for fuzzing.
C23_Witness ==
    /\ pc = "returned"
    /\ done_steps = {"save", "pretty_print", "redirect_coverage"}
    /\ IterationClean
    /\ coverage # {}
    /\ coverage \subseteq cov_file
    /\ coverage \subseteq redirected

\* ------------------------------------------------------- transferred value
\* C25: the k-th message call transfers the value_token of the k-th message
\* when the message is payable, and 0 when it is not.
C25_ValueOnlyWithPayableMessage ==
    \A k \in 1..Len(all_msg_responses) :
        /\ calls[k].kind = "message"
        /\ decoded_msgs.messages[k].is_payable =>
              calls[k].value = decoded_msgs.messages[k].value_token
        /\ ~decoded_msgs.messages[k].is_payable => calls[k].value = 0

\* C25 witness: a message that is not payable was decoded with a value_token
\* other than 0 and called with 0, and a payable message of the same input was
\* called with its value_token.
C25_Witness ==
    /\ Len(all_msg_responses) = 2
    /\ \E j, k \in 1..2 :
          /\ ~decoded_msgs.messages[j].is_payable
          /\ decoded_msgs.messages[j].value_token > 0
          /\ calls[j].value = 0
          /\ decoded_msgs.messages[k].is_payable
          /\ decoded_msgs.messages[k].value_token > 0
          /\ calls[k].value = decoded_msgs.messages[k].value_token

\* ------------------------------------------- the corpus and the dictionary
\* the metadata files that declare the four messages, in any order
MetadataOrders ==
    {[k \in 1..Len(Metadata) |-> Metadata[p[k]]] :
        p \in {q \in [1..Len(Metadata) -> 1..Len(Metadata)] :
                 \A i, j \in 1..Len(Metadata) : i # j => q[i] # q[j]}}

\* what an earlier run left in output/phink: nothing, or seed files and a
\* dictionary
NoDisk == [corpus |-> <<>>, dict |-> <<>>]
StaleDisk ==
    [corpus |-> [i \in 0..(Len(Metadata) - 1) |-> SelInv1],
     dict |-> <<<<"# Dictionary file for selectors">>, <<"\"", "\\x", "0", "0", "\"">>>>]

\* `phink execute <seed>` in a directory that may hold the files of an
\* earlier run
InitCorpus ==
    /\ contract = 0
    /\ mode = "ExecuteOneInput"
    /\ cfg_fuzzing = FALSE
    /\ \E json_specs \in MetadataOrders :
           setup = [genesis |-> "genesis", contract_address |-> ContractAddress,
                    json_specs |-> json_specs]
    /\ fuzzing_config = DefaultConfiguration
    /\ ziggy_config = DefaultConfiguration
    /\ deploy = Deployed
    /\ bug_manager = NoBugManager
    /\ heap = [genesis |-> Some(GenesisStorage), bm_genesis |-> None, fork |-> None]
    /\ pc = "init_fuzzer"
    /\ warm = FALSE
    /\ decoded_msgs = NoInput
    /\ chain = NoChain
    /\ coverage = {}
    /\ all_msg_responses = <<>>
    /\ inv_i = 0
    /\ calls = <<>>
    /\ report = NoReport
    /\ done_steps = {}
    /\ cov_file = {}
    /\ redirected = {}
    /\ data = <<>>
    /\ \E disk \in {NoDisk, StaleDisk} : corpus = disk.corpus /\ dict = disk.dict
    /\ dirs = <<>>
    /\ engine = NoEngine
    /\ runs = <<>>
    /\ code = <<>>
    /\ detected = None

SpecCorpus == InitCorpus /\ [][Next]_vars

\* the selectors of the messages that are not invariants, as declared
FuzzableSelectors ==
    LET fuzzable == SelectSeq(setup.json_specs, LAMBDA message : ~message.phink)
    IN  [k \in 1..Len(fuzzable) |-> fuzzable[k].selector]

InitFuzzerDone == pc \notin {"init_fuzzer"} /\ bug_manager # NoBugManager

\* C26: after init_fuzzer, selector_{i}.bin holds the 4 bytes of the i-th
\* fuzzable selector, counted from 0 in declaration order; the dictionary is
\* the header followed by one entry per fuzzable selector in the same order;
\* the files with a higher index are those of an earlier run, untouched; no
\* file written and no dictionary entry is an invariant selector.
C26_CorpusAndDictOfFuzzableSelectors ==
    /\ InitFuzzerDone =>
          /\ \A i \in 0..(Len(FuzzableSelectors) - 1) :
                /\ i \in DOMAIN corpus
                /\ corpus[i] = FuzzableSelectors[i + 1]
                /\ Len(corpus[i]) = SelectorLen
                /\ \A k \in 1..Len(bug_manager.invariant_selectors) :
                      corpus[i] # bug_manager.invariant_selectors[k]
          /\ Len(dict) = Len(write_dict_header) + Len(FuzzableSelectors)
          /\ SubSeq(dict, 1, Len(write_dict_header)) = write_dict_header
          /\ dict[Len(write_dict_header)] = <<"delimiter=", "\"", "********", "\"">>
          /\ \A k \in 1..Len(FuzzableSelectors) :
                /\ dict[Len(write_dict_header) + k] =
                       <<"\"">> \o hex_bytes(FuzzableSelectors[k]) \o <<"\"">>
                /\ \A j \in 1..Len(bug_manager.invariant_selectors) :
                      dict[Len(write_dict_header) + k] #
                          <<"\"">> \o hex_bytes(bug_manager.invariant_selectors[j]) \o <<"\"">>
    /\ [][pc = "init_fuzzer" =>
             \A i \in DOMAIN corpus' :
                 i >= Len(FuzzableSelectors) => (i \in DOMAIN corpus /\ corpus'[i] = corpus[i])]_vars

\* C26 witness: an invariant is declared between the two fuzzable messages,
\* files of an earlier run were there, and init_fuzzer has written both seeds.
C26_Witness ==
    /\ InitFuzzerDone
    /\ setup.json_specs[1].phink
    /\ ~setup.json_specs[2].phink
    /\ setup.json_specs[3].phink
    /\ ~setup.json_specs[4].phink
    /\ corpus[0] = setup.json_specs[2].selector
    /\ corpus[1] = setup.json_specs[4].selector
    /\ corpus[2] = SelInv1
    /\ Len(dict) = 5

\* ---------------------------------------------------- is_contract_trapped
\* the harness on the contract that fails
InitFaulty ==
    /\ contract = Faulty
    /\ mode \in {"Fuzz", "ExecuteOneInput"}
    /\ cfg_fuzzing = FALSE
    /\ setup = [genesis |-> "genesis", contract_address |-> ContractAddress,
                json_specs |-> Metadata]
    /\ fuzzing_config = DefaultConfiguration
    /\ ziggy_config = DefaultConfiguration
    /\ deploy = Deployed
    /\ bug_manager = NoBugManager
    /\ heap = [genesis |-> Some(GenesisOf(Faulty)), bm_genesis |-> None, fork |-> None]
    /\ pc = "init_fuzzer"
    /\ warm = FALSE
    /\ decoded_msgs = NoInput
    /\ chain = NoChain
    /\ coverage = {}
    /\ all_msg_responses = <<>>
    /\ inv_i = 0
    /\ calls = <<>>
    /\ report = NoReport
    /\ done_steps = {}
    /\ cov_file = {}
    /\ redirected = {}
    /\ data = <<>>
    /\ corpus = <<>>
    /\ dict = <<>>
    /\ dirs = <<>>
    /\ engine = NoEngine
    /\ runs = <<>>
    /\ code = <<>>
    /\ detected = None

SpecFaulty == InitFaulty /\ [][Next]_vars

\* the result is Err(DispatchError::Module(e)) with e.message = Some("ContractTrapped")
ModuleContractTrapped(r) ==
    r.result.ok = FALSE /\ r.result.module = TRUE /\ r.result.message = "ContractTrapped"

TrapScanned == InHarness /\ pc \in {"are_invariants_passing", "checked", "returned", "panicked"}

\* C24: is_contract_trapped is true of a response exactly when its result is
\* a module error with the message "ContractTrapped": false for an Ok result,
\* for an error that is not a module error, for a module error with another
\* message or none; the trap scan reports a trap exactly when a message
\* response is such an error.
C24_TrappedIffModuleContractTrapped ==
    /\ \A k \in 1..Len(calls) :
          LET r == calls[k].response
          IN  /\ is_contract_trapped(r) <=> ModuleContractTrapped(r)
              /\ r.result.ok => ~is_contract_trapped(r)
              /\ ~r.result.module => ~is_contract_trapped(r)
              /\ r.result.message # "ContractTrapped" => ~is_contract_trapped(r)
    /\ TrapScanned =>
          ((pc = "panicked" /\ report.kind = "trap")
             <=> \E k \in 1..Len(all_msg_responses) : ModuleContractTrapped(all_msg_responses[k]))

\* C24 witness: the messages ended in an error that is not a module error
\* but carries the text, and in a module error without the text; the trap scan
\* let them through.
C24_Witness ==
    /\ pc = "are_invariants_passing"
    /\ Len(all_msg_responses) = 2
    /\ \E j, k \in 1..2 :
          /\ all_msg_responses[j].result = ResultOtherTrapped
          /\ all_msg_responses[k].result.module
          /\ all_msg_responses[k].result.message # "ContractTrapped"

\* ------------------------------------------- errors of the sample (dns)
\* C21: register of a name that has an owner returns NameAlreadyExists and
\* set_address by a caller who does not own the name returns CallerIsNotOwner;
\* both return the storage they were given, and the call leaves every mapping,
\* vector and flag as it was; set_address by the owner returns Ok and
\* get_address then gives the new address.
C21_ErrorLeavesStorageUnchanged ==
    \A k \in 1..Len(calls) :
        LET c == calls[k]
            self == c.before.store
        IN  c.kind = "message" =>
              /\ c.response.result.revert => c.after = c.before
              /\ \A name \in Names :
                    /\ (c.payload = encode_register(name) /\ name \in DOMAIN self.name_to_owner) =>
                          /\ register(self, c.who, name).value = "NameAlreadyExists"
                          /\ register(self, c.who, name).self = self
                          /\ c.response.result.revert
                          /\ c.after = c.before
                    /\ (/\ c.payload = encode_set_address(name, bob)
                        /\ c.who # (IF name \in DOMAIN self.name_to_owner
                                    THEN self.name_to_owner[name]
                                    ELSE self.default_address)) =>
                          /\ set_address(self, c.who, name, bob).value = "CallerIsNotOwner"
                          /\ set_address(self, c.who, name, bob).self = self
                          /\ c.response.result.revert
                          /\ c.after = c.before
                    /\ (/\ c.payload = encode_set_address(name, bob)
                        /\ c.who = (IF name \in DOMAIN self.name_to_owner
                                    THEN self.name_to_owner[name]
                                    ELSE self.default_address)) =>
                          /\ set_address(self, c.who, name, bob).value = "Ok"
                          /\ c.response.result.ok
                          /\ ~c.response.result.revert
                          /\ get_address(c.after.store, name) = bob
                          /\ c.after.store.name_to_owner = self.name_to_owner
                          /\ c.after.store.domains = self.domains

\* C21 witness: one iteration registered a name, registered it again and got
\* the error, and then set its address as the owner.
C21_Witness ==
    /\ Len(calls) >= 3
    /\ calls[1].payload = encode_register(FORBIDDEN_DOMAIN)
    /\ calls[1].response.result.ok /\ ~calls[1].response.result.revert
    /\ calls[2].payload = encode_register(FORBIDDEN_DOMAIN)
    /\ calls[2].response.result.revert
    /\ calls[2].after = calls[1].after
    /\ calls[3].payload = encode_set_address(FORBIDDEN_DOMAIN, bob)
    /\ ~calls[3].response.result.revert
    /\ calls[3].who # zero_address
    /\ get_address(calls[2].after.store, FORBIDDEN_DOMAIN) = zero_address
    /\ get_address(calls[3].after.store, FORBIDDEN_DOMAIN) = bob

\* --------------------------------------- the three calls of the sample
\* the call was a message that returned Ok(())
Succeeded(c) == c.kind = "message" /\ c.response.result.ok /\ ~c.response.result.revert

IsTransfer80(c) ==
    /\ SubSeq(c.payload, 1, SelectorLen) = SelTransfer
    /\ Len(c.payload) = SelectorLen + HashLen + AccountIdLen + 4
    /\ SubSeq(c.payload, Len(c.payload) - 3, Len(c.payload)) = <<80, 0, 0, 0>>

C29_BothModesUseCommandConfiguration ==
    \A k \in 1..Len(calls) :
        /\ calls[k].response =
               call(contract, setup, calls[k].before, calls[k].payload, calls[k].who[1],
                    calls[k].value, ziggy_config).response
        /\ fuzzing_config = ziggy_config
        /\ bug_manager.configuration = ziggy_config

\* ------------------------------------------------------ the deployment
\* execute_harness, lines 74-80: initialize_wasm on the contract of the
\* command, then the Fuzzer of the mode; a panic ends the process
InitializeWasm ==
    /\ pc = "initialize_wasm"
    /\ \E outcome \in RuntimeOutcomes, json_specs \in {Metadata, MetadataNoInvariants} :
         LET r == initialize_wasm(contract, json_specs, outcome)
         IN  /\ deploy' = r.log
             /\ setup' = r.bridge
             /\ heap' = [heap EXCEPT !["genesis"] = r.storage]
             /\ fuzzing_config' = execute_harness(mode, r.bridge, ziggy_config).fuzzing_config
             /\ pc' = IF r.panic THEN "panicked" ELSE "init_fuzzer"
    /\ UNCHANGED <<contract, mode, cfg_fuzzing, ziggy_config, bug_manager, warm, decoded_msgs,
                   chain, coverage, all_msg_responses, inv_i, calls, report, done_steps,
                   cov_file, redirected, data, disk_vars, instrument_vars>>

\* `phink fuzz` or `phink execute` before the contract is deployed
InitDeploy ==
    /\ contract = 0
    /\ mode \in {"Fuzz", "ExecuteOneInput"}
    /\ cfg_fuzzing = FALSE
    /\ setup = NoBridge
    /\ fuzzing_config = DefaultConfiguration
    /\ ziggy_config = DefaultConfiguration
    /\ deploy = <<>>
    /\ bug_manager = NoBugManager
    /\ heap = [genesis |-> None, bm_genesis |-> None, fork |-> None]
    /\ pc = "initialize_wasm"
    /\ warm = FALSE
    /\ decoded_msgs = NoInput
    /\ chain = NoChain
    /\ coverage = {}
    /\ all_msg_responses = <<>>
    /\ inv_i = 0
    /\ calls = <<>>
    /\ report = NoReport
    /\ done_steps = {}
    /\ cov_file = {}
    /\ redirected = {}
    /\ data = <<>>
    /\ corpus = <<>>
    /\ dict = <<>>
    /\ dirs = <<>>
    /\ engine = NoEngine
    /\ runs = <<>>
    /\ code = <<>>
    /\ detected = None

NextDeploy ==
    \/ InitializeWasm
    \/ Next

SpecDeploy == InitDeploy /\ [][NextDeploy]_vars

\* the storage the bridge designates as its genesis
CapturedGenesis == heap[setup.genesis]

\* C27: initialize_wasm gives a bridge only after bare_upload_code and then
\* bare_instantiate both succeeded and the contract info exists at the
\* returned address in the storage that is captured as the genesis; in every
\* other case the process has panicked with no bridge, no genesis, and
\* nothing of the harness has run.
C27_BridgeOnlyAfterVerifiedDeployment ==
    /\ (setup # NoBridge) =>
          /\ deploy = Deployed
          /\ setup.genesis = "genesis"
          /\ CapturedGenesis # None
          /\ setup.contract_address \in CapturedGenesis[1].contract_info
          /\ setup.contract_address = ContractAddress
    /\ (pc # "initialize_wasm" /\ setup = NoBridge) =>
          /\ pc = "panicked"
          /\ heap["genesis"] = None
          /\ bug_manager = NoBugManager
          /\ calls = <<>>
          /\ \/ deploy = <<[call |-> "bare_upload_code", result |-> "Err"]>>
             \/ deploy = <<[call |-> "bare_upload_code", result |-> "Ok"]>>
             \/ deploy = <<[call |-> "bare_upload_code", result |-> "Ok"],
                           [call |-> "bare_instantiate", result |-> "Err"]>>
             \/ deploy = Deployed
    /\ (pc = "initialize_wasm") => (setup = NoBridge /\ deploy = <<>>)

\* a deployment went through and the harness ran a message on its bridge
C27_Witness ==
    /\ setup # NoBridge
    /\ deploy = Deployed
    /\ heap["genesis"] = Some(GenesisStorage)
    /\ Len(calls) >= 1

\* ------------------------------------------- the place of the forked copy
\* Directories are paths; a contract directory holds a lib.rs.
Tmp == <<"tmp">>

\* the contract directories on the disk before the first run
ContractPaths == {<<"home", "flipper">>, Tmp}

\* the 5 alphanumeric characters fork draws
RandomStrings == {"aaaaa", "bbbbb"}

\* Path::starts_with
starts_with(path, base) ==
    /\ Len(base) <= Len(path)
    /\ SubSeq(path, 1, Len(base)) = base

\* fork, line 182: Path::new("/tmp").join(format!("ink_fuzzed_{}", random_string))
ink_fuzzed(random_string) == Tmp \o <<"ink_fuzzed", random_string>>

\* build: cargo contract build runs in contract_dir and writes its target there
build(e) == {e.contract_dir}

\* fork when the new directory lies inside the contract directory: the
\* directory is created, the walk meets the copy it is making and fork ends
\* in Err, with lib.rs copied or not; instrument returns before contract_dir
\* is assigned
fork_inside(e, d, new_dir) ==
    {[engine |-> e, dirs |-> disk, result |-> "ForkErr", modified |-> None] :
        disk \in {d, fork(d, e.contract_dir, new_dir)}}

\* Instrumenter::new(contract_path), engine.instrument(), then build() when
\* instrument returned Ok (main.rs, lines 124-125)
instrument_and_build(contract_path, d, random_string) ==
    LET e == [contract_dir |-> contract_path]
        new_dir == ink_fuzzed(random_string)
        written(r) == {new_dir} \cup (IF r.result = "Ok" THEN build(r.engine) ELSE {})
    IN  {[r EXCEPT !.modified = written(r)] :
            r \in IF new_dir # contract_path /\ starts_with(new_dir, contract_path)
                  THEN fork_inside(e, d, new_dir)
                  ELSE {instrument(e, d, new_dir)}}

\* `phink instrument <contract_path>`
PhinkInstrumentPath(contract_path, random_string) ==
    /\ Len(runs) < MaxRuns
    /\ \E r \in instrument_and_build(contract_path, dirs, random_string) :
         /\ engine' = r.engine
         /\ dirs' = r.dirs
         /\ runs' = Append(runs, [contract_path |-> contract_path,
                                  new_dir |-> ink_fuzzed(random_string),
                                  read |-> dirs[contract_path], result |-> r.result,
                                  written |-> r.modified])
    /\ UNCHANGED <<fuzzer_vars, code, detected>>

InitFork ==
    /\ NotFuzzing
    /\ \E source \in Sources : dirs = [x \in ContractPaths |-> source]
    /\ engine = NoEngine
    /\ runs = <<>>
    /\ code = <<>>
    /\ detected = None

NextFork ==
    \E contract_path \in DOMAIN dirs, random_string \in RandomStrings :
        PhinkInstrumentPath(contract_path, random_string)

SpecFork == InitFork /\ [][NextFork]_vars

\* C30: no run of instrument and build writes inside the contract directory
\* it was given: what it writes is the new /tmp/ink_fuzzed_<random> directory,
\* which lies outside that tree, and after a run that succeeded or refused an
\* instrumented source the engine's contract_dir is that directory.
C30_OriginalTreeNeverWritten ==
    /\ \A k \in 1..Len(runs) :
          /\ runs[k].written = {runs[k].new_dir}
          /\ \A w \in runs[k].written : ~starts_with(w, runs[k].contract_path)
    /\ (runs # <<>> /\ runs[Len(runs)].result \in {"Ok", "Err"}) =>
          engine.contract_dir = runs[Len(runs)].new_dir

====
